---- MODULE Spec2Model ----
(***************************************************************************)
(* Quality evaluation engine of the blog post creator: ContentEvaluator,   *)
(* AgentEvaluator (src/evaluation.py), the telemetry observer              *)
(* (src/observability.py) and the crew run that feeds them                 *)
(* (src/crew_agent.py).                                                    *)
(*                                                                         *)
(* Numbers.  An axis score is a Python float that starts at 100.0 and only *)
(* has whole numbers subtracted, so it is modelled as an integer number of *)
(* points.  A weighted overall score is kept in units of 1/10000 point     *)
(* ("fine" units), and a value returned through round(x, 2) in units of    *)
(* 1/100 point ("hundredths").                                             *)
(*                                                                         *)
(* Text.  A string the code only searches is modelled by the set of its    *)
(* notable substrings as written (with their letter case); lower() is the  *)
(* operator Lower.  A parsed document is modelled by what find_all and     *)
(* get_text return for it.                                                 *)
(***************************************************************************)
EXTENDS Integers, Sequences, FiniteSets, TLC

VARIABLES
    content_args,   \* arguments (title, content, tags) of an evaluate_content call
    content_eval,   \* outcome of that call: a ContentQualityScore, or the exception
    agent_args,     \* arguments of an evaluate_agent_performance call
    agent_eval,     \* outcome of that call
    score_in,       \* argument of a _score_to_grade call
    grades,         \* grades returned for score_in by the two evaluators
    calls,          \* frames of the evaluator calls in progress on one instance pair
    heap,           \* the list objects those frames refer to
    crew,           \* BlogPostCrew.create_and_publish_post: position and locals
    observer,       \* the CrewObserver of that crew
    now,            \* wall clock, in seconds
    files,          \* the file system the reports are written to
    stdout          \* what has been printed

vars == <<content_args, content_eval, agent_args, agent_eval, score_in, grades,
          calls, heap, crew, observer, now, files, stdout>>

\* None, where the other values are records
None == [type |-> "NoneType"]

(***************************************************************************)
(* Helpers                                                                 *)
(***************************************************************************)
Max(a, b) == IF a >= b THEN a ELSE b

RECURSIVE SumSeq(_)
SumSeq(s) == IF s = <<>> THEN 0 ELSE Head(s) + SumSeq(Tail(s))

\* str.lower() on the strings the model uses
Lower(s) ==
    CASE s = "<H1>" -> "<h1>"
      [] s = "Lorem Ipsum" -> "lorem ipsum"
      [] s = "TODO" -> "todo"
      [] s = "In Conclusion" -> "in conclusion"
      [] s = "Finally" -> "finally"
      [] s = "Hiking" -> "hiking"
      [] s = "Trails" -> "trails"
      [] OTHER -> s

\* `word in text.lower()`: text is the set of its notable substrings.  A phrase
\* such as "in conclusion" contains the marker "conclusion".
ContainsLower(text, word) ==
    \E s \in text :
        \/ Lower(s) = word
        \/ Lower(s) = "in conclusion" /\ word = "conclusion"

\* round(x, 2) of a value given in fine units; the result is in hundredths.
\* Python rounds a tie to the even neighbour.
Round2(fine) ==
    LET q == fine \div 100
        r == fine % 100
    IN  IF r > 50 \/ (r = 50 /\ q % 2 = 1) THEN q + 1 ELSE q

\* f"{x:.1f}" of a whole number
Fmt1(x) == ToString(x) \o ".0"

(***************************************************************************)
(* ContentEvaluator                                                        *)
(***************************************************************************)

\* What an axis hands back: the exception it let escape ("none": it returned),
\* its score, and the caller's two lists as it left them.
AxisResult(raised, score, issues, recommendations) ==
    [raised |-> raised, score |-> score, issues |-> issues,
     recommendations |-> recommendations]

\* an axis that returns its running score as it is
ClampMissing(score) == score

\* max(0, score) at the end of every axis
Clamp(score) == Max(0, score)

\* One check of an axis: what it subtracts from the score and what it appends
\* to the issues and to the recommendations.
Check(penalty, issues, recommendations) ==
    [penalty |-> penalty, issues |-> issues, recommendations |-> recommendations]

Passed == Check(0, <<>>, <<>>)

\* The checks of an axis run in order: the penalties add up, the messages are
\* appended in the order of the checks.
RECURSIVE Penalties(_, _)
Penalties(checks, n) ==
    IF n = 0 THEN 0 ELSE Penalties(checks, n - 1) + checks[n].penalty

RECURSIVE Issues(_, _)
Issues(checks, n) ==
    IF n = 0 THEN <<>> ELSE Issues(checks, n - 1) \o checks[n].issues

RECURSIVE Recommendations(_, _)
Recommendations(checks, n) ==
    IF n = 0 THEN <<>> ELSE Recommendations(checks, n - 1) \o checks[n].recommendations

\* score = 100.0, the checks, return max(0, score)
RunChecks(checks, issues, recommendations) ==
    AxisResult("none", Clamp(100 - Penalties(checks, Len(checks))),
               issues \o Issues(checks, Len(checks)),
               recommendations \o Recommendations(checks, Len(checks)))

ReadingEaseCheck(reading_ease) ==
    IF reading_ease < 50
    THEN Check(20, <<"Content is difficult to read (score: " \o Fmt1(reading_ease) \o ")">>,
               <<"Use shorter sentences and simpler words">>)
    ELSE IF reading_ease < 60
    THEN Check(10, <<>>, <<"Could improve readability with simpler language">>)
    ELSE Passed

\* a grade-level check that objects from grade 12 on
GradeLevelCheckFrom12(grade_level) ==
    IF grade_level >= 12
    THEN Check(15, <<"Content requires college-level reading (grade " \o Fmt1(grade_level) \o ")">>,
               <<"Simplify complex sentences">>)
    ELSE IF grade_level < 6
    THEN Check(5, <<"Content may be too simplistic">>, <<>>)
    ELSE Passed

GradeLevelCheck(grade_level) ==
    IF grade_level > 12
    THEN Check(15, <<"Content requires college-level reading (grade " \o Fmt1(grade_level) \o ")">>,
               <<"Simplify complex sentences">>)
    ELSE IF grade_level < 6
    THEN Check(5, <<"Content may be too simplistic">>, <<>>)
    ELSE Passed

SentenceLengthCheck(avg_sentence_length) ==
    IF avg_sentence_length > 25
    THEN Check(10, <<>>, <<"Consider breaking up long sentences">>)
    ELSE Passed

\* a handler that subtracts from the running score instead of replacing it
ReadabilityFallbackSubtracts(partial, e) ==
    AxisResult("none", Clamp(partial.score - 25),
               Append(partial.issues, "Could not fully assess readability: " \o e),
               partial.recommendations)

\* a handler that also takes back what the try block appended
ReadabilityFallbackRollsBack(partial, e) ==
    AxisResult("none", Clamp(75), <<"Could not fully assess readability: " \o e>>, <<>>)

\* except Exception as e: the issue is appended to the lists as they are by
\* then, and the score is set to 75 whatever it was
ReadabilityFallback(partial, e) ==
    AxisResult("none", Clamp(75),
               Append(partial.issues, "Could not fully assess readability: " \o e),
               partial.recommendations)

\* text is the plain text: its three textstat metrics, and the metric (if any)
\* textstat raises on.  Reading ease and grade level are computed before the
\* first check, the average sentence length after the second.
Evaluate_readability(text, issues, recommendations) ==
    LET ease  == ReadingEaseCheck(text.reading_ease)
        grade == GradeLevelCheck(text.grade_level)
        asl   == SentenceLengthCheck(text.avg_sentence_length)
    IN  IF text.fault \in {"flesch_reading_ease", "flesch_kincaid_grade"}
        THEN ReadabilityFallback(RunChecks(<<>>, issues, recommendations), text.fault)
        ELSE IF text.fault = "avg_sentence_length"
        THEN ReadabilityFallback(RunChecks(<<ease, grade>>, issues, recommendations),
                                 text.fault)
        ELSE RunChecks(<<ease, grade, asl>>, issues, recommendations)

\* the H2 check with its lower threshold off by one
H2CheckOffByOne(n) ==
    IF n < 2
    THEN Check(25, <<"Only " \o ToString(n) \o " main sections (H2). Need at least 3">>,
               <<"Add more main sections with H2 headings">>)
    ELSE IF n > 8
    THEN Check(10, <<"Too many main sections - content may be fragmented">>, <<>>)
    ELSE Passed

H2Check(n) ==
    IF n < 3
    THEN Check(25, <<"Only " \o ToString(n) \o " main sections (H2). Need at least 3">>,
               <<"Add more main sections with H2 headings">>)
    ELSE IF n > 8
    THEN Check(10, <<"Too many main sections - content may be fragmented">>, <<>>)
    ELSE Passed

H3Check(n) ==
    IF n = 0 THEN Check(10, <<>>, <<"Consider adding subsections with H3 headings">>)
    ELSE Passed

\* a paragraph check that also objects to exactly 5 paragraphs
ParagraphCheckAtMost5(n) ==
    IF n <= 5
    THEN Check(20, <<"Too few paragraphs - content lacks depth">>,
               <<"Break content into more paragraphs">>)
    ELSE Passed

ParagraphCheck(n) ==
    IF n < 5
    THEN Check(20, <<"Too few paragraphs - content lacks depth">>,
               <<"Break content into more paragraphs">>)
    ELSE Passed

\* a missing list costs as much as an H1 tag
ListCheckHeavier(n) ==
    IF n = 0 THEN Check(15, <<>>, <<"Consider using bullet points or numbered lists">>)
    ELSE Passed

\* lists = soup.find_all(['ul', 'ol'])
ListCheck(n) ==
    IF n = 0 THEN Check(10, <<>>, <<"Consider using bullet points or numbered lists">>)
    ELSE Passed

\* '<h1>' in content.lower()
H1Check(raw) ==
    IF ContainsLower(raw, "<h1>")
    THEN Check(15, <<"Contains H1 tag - title should be separate">>, <<>>)
    ELSE Passed

\* the five points are taken without a recommendation
EmphasisCheckSilent(n) == IF n = 0 THEN Check(5, <<>>, <<>>) ELSE Passed

\* strong_tags = soup.find_all(['strong', 'b', 'em', 'i'])
EmphasisCheck(n) ==
    IF n = 0 THEN Check(5, <<>>, <<"Add emphasis to key points using bold/italic">>)
    ELSE Passed

\* content carries what soup.find_all finds in it, and its raw text
Evaluate_structure(content, issues, recommendations) ==
    IF content.fault = "structure"
    THEN AxisResult("structure", 0, issues, recommendations)
    ELSE RunChecks(<<H2Check(content.h2_tags), H3Check(content.h3_tags),
                     ParagraphCheck(Len(content.p_tags)), ListCheck(content.lists),
                     H1Check(content.raw), EmphasisCheck(content.strong_tags)>>,
                   issues, recommendations)

TitleLengthCheck(title_len) ==
    IF title_len < 30
    THEN Check(20, <<"Title too short (" \o ToString(title_len) \o " chars). SEO optimal: 50-70">>,
               <<"Expand title to 50-70 characters">>)
    ELSE IF title_len < 50
    THEN Check(10, <<>>, <<"Title could be longer for better SEO">>)
    ELSE IF title_len > 70
    THEN Check(15, <<"Title too long (" \o ToString(title_len) \o " chars). May be truncated">>,
               <<"Shorten title to 50-70 characters">>)
    ELSE Passed

\* a tag list that keeps the empty and blank pieces
TagListUnstripped(tags) == tags

\* tag_list = [t.strip() for t in tags.split(',') if t.strip()]; tags is the
\* sequence of the pieces between the commas
TagList(tags) == SelectSeq(tags, LAMBDA t : t \notin {"", " "})

TagCountCheck(n) ==
    IF n < 3
    THEN Check(15, <<"Only " \o ToString(n) \o " tags. Recommended: 3-5">>,
               <<"Add more relevant tags">>)
    ELSE IF n > 7
    THEN Check(10, <<"Too many tags - dilutes focus">>, <<"Reduce to 3-5 most relevant tags">>)
    ELSE Passed

WordCountCheck(word_count) ==
    IF word_count < 800
    THEN Check(25, <<"Content too short (" \o ToString(word_count) \o " words). Target: 800-1500">>,
               <<"Expand content with more details and examples">>)
    ELSE IF word_count > 2000
    THEN Check(5, <<>>, <<"Content is quite long - consider breaking into series">>)
    ELSE Passed

\* sum(1 for word in title_words if len(word) > 4 and word in content_lower),
\* title_words being the set of the words of title.lower()
KeywordAppearances(title, content) ==
    Cardinality({w \in {Lower(title.words[i]) : i \in DOMAIN title.words} :
                    Len(w) > 4 /\ ContainsLower(content.raw, w)})

KeywordCheck(keyword_appearances) ==
    IF keyword_appearances < 2
    THEN Check(20, <<"Title keywords barely appear in content">>,
               <<"Use title keywords naturally throughout content">>)
    ELSE Passed

Evaluate_seo(title, content, tags, word_count, issues, recommendations) ==
    IF content.fault = "seo"
    THEN AxisResult("seo", 0, issues, recommendations)
    ELSE RunChecks(<<TitleLengthCheck(title.length), TagCountCheck(Len(TagList(tags))),
                     WordCountCheck(word_count),
                     KeywordCheck(KeywordAppearances(title, content))>>,
                   issues, recommendations)

ConclusionWords == {"conclusion", "summary", "in closing", "to wrap up", "finally"}

PlaceholderWords == {"lorem ipsum", "placeholder", "todo", "tbd", "xxx"}

IntroductionCheck(p_tags) ==
    IF p_tags # <<>> /\ p_tags[1].words < 30
    THEN Check(15, <<"Introduction paragraph is too short">>,
               <<"Expand introduction to engage readers">>)
    ELSE Passed

ConclusionCheck(p_tags) ==
    IF /\ p_tags # <<>>
       /\ ~(\E w \in ConclusionWords : ContainsLower(p_tags[Len(p_tags)].text, w))
       /\ p_tags[Len(p_tags)].words < 30
    THEN Check(10, <<>>, <<"Consider adding a clear conclusion">>)
    ELSE Passed

\* avg_paras_per_section = p_count / h2_count < 2: a float division of two
\* small whole numbers, below 2 exactly when p_count < 2 * h2_count
DepthCheck(h2_count, p_count) ==
    IF h2_count > 0 /\ p_count < 2 * h2_count
    THEN Check(20, <<"Sections lack depth - need more content per section">>,
               <<"Expand each section with more details">>)
    ELSE Passed

\* a placeholder search that compares the content as written, without lower()
PlaceholderCheckAsWritten(raw) ==
    IF raw \cap PlaceholderWords # {}
    THEN Check(30, <<"Content contains placeholder text">>, <<>>)
    ELSE Passed

PlaceholderCheck(raw) ==
    IF \E w \in PlaceholderWords : ContainsLower(raw, w)
    THEN Check(30, <<"Content contains placeholder text">>, <<>>)
    ELSE Passed

ViableCheck(word_count) ==
    IF word_count < 500
    THEN Check(40, <<"Content critically short - not viable for publication">>, <<>>)
    ELSE Passed

Evaluate_completeness(content, word_count, issues, recommendations) ==
    IF content.fault = "completeness"
    THEN AxisResult("completeness", 0, issues, recommendations)
    ELSE RunChecks(<<IntroductionCheck(content.p_tags), ConclusionCheck(content.p_tags),
                     DepthCheck(content.h2_tags, Len(content.p_tags)),
                     PlaceholderCheck(content.raw), ViableCheck(word_count)>>,
                   issues, recommendations)

\* ContentEvaluator._score_to_grade; score in fine units
Content_score_to_grade(score) ==
    IF score >= 90 * 10000 THEN "A"
    ELSE IF score >= 80 * 10000 THEN "B"
    ELSE IF score >= 70 * 10000 THEN "C"
    ELSE IF score >= 60 * 10000 THEN "D"
    ELSE "F"

\* an overall score that weights the axes unequally
ContentOverallUneven(r, s, e, c) == r * 3000 + s * 3000 + e * 2000 + c * 2000

\* readability * 0.25 + structure * 0.25 + seo * 0.25 + completeness * 0.25,
\* in fine units (0.25 point = 2500)
ContentOverall(r, s, e, c) == r * 2500 + s * 2500 + e * 2500 + c * 2500

\* an exception that leaves the call
Raised(where) == [raised |-> where]

ContentQualityScore(r, s, e, c, overall, grade, issues, recommendations) ==
    [raised |-> "none",
     readability_score |-> Round2(r * 10000),
     structure_score |-> Round2(s * 10000),
     seo_score |-> Round2(e * 10000),
     completeness_score |-> Round2(c * 10000),
     overall_score |-> Round2(overall),
     grade |-> grade,
     issues |-> issues,
     recommendations |-> recommendations]

\* evaluate_content(title, content, tags).  soup, text and word_count are
\* fields of the modelled content.
Evaluate_content(args) ==
    LET content == args.content
        word_count == content.word_count
        rd == Evaluate_readability(content, <<>>, <<>>)
        st == Evaluate_structure(content, rd.issues, rd.recommendations)
        se == Evaluate_seo(args.title, content, args.tags, word_count,
                           st.issues, st.recommendations)
        co == Evaluate_completeness(content, word_count, se.issues, se.recommendations)
        overall == ContentOverall(rd.score, st.score, se.score, co.score)
    IN  IF st.raised # "none" THEN Raised(st.raised)
        ELSE IF se.raised # "none" THEN Raised(se.raised)
        ELSE IF co.raised # "none" THEN Raised(co.raised)
        ELSE ContentQualityScore(rd.score, st.score, se.score, co.score, overall,
                                 Content_score_to_grade(overall),
                                 co.issues, co.recommendations)

(***************************************************************************)
(* AgentEvaluator                                                          *)
(***************************************************************************)

\* Python values handed to the evaluator: a dict, or an instance of a dataclass
PyDict(items) == [type |-> "dict", items |-> items]

PyObject(class, fields) == [type |-> class, items |-> fields]

\* only a dict has .get; on any other object the attribute lookup raises
HasGet(v) == v.type = "dict"

\* d.get(key, default)
Get(d, key, default) == IF key \in DOMAIN d.items THEN d.items[key] ELSE default

\* a lookup that stores the default under a missing key, as setdefault does
DictAfterSetdefault(d, key, default) ==
    [d EXCEPT !.items = IF key \in DOMAIN d.items THEN @ ELSE (key :> default) @@ @]

\* the dict after d.get(key, default): get never stores the default
DictAfterGet(d, key, default) == d

\* agent_metrics and task_metrics after evaluate_agent_performance: the only
\* calls made on them are values(), iteration and get
AgentArgsAfter(args) ==
    LET am == args.agent_metrics
        tm == args.task_metrics
    IN  [args EXCEPT
           !.agent_metrics =
               [a \in DOMAIN am |->
                   IF HasGet(am[a])
                   THEN DictAfterGet(DictAfterGet(am[a], "tool_calls", 0), "errors", <<>>)
                   ELSE am[a]],
           !.task_metrics =
               [i \in DOMAIN tm |->
                   DictAfterGet(DictAfterGet(DictAfterGet(tm[i], "duration", 0),
                                             "status", "None"),
                                "output_length", 0)]]

RECURSIVE SumOver(_, _)
SumOver(S, f) ==
    IF S = {} THEN 0
    ELSE LET x == CHOOSE y \in S : TRUE IN f[x] + SumOver(S \ {x}, f)

\* sum(metrics.get('tool_calls', 0) for metrics in agent_metrics.values())
TotalToolCalls(agent_metrics) ==
    SumOver(DOMAIN agent_metrics,
            [a \in DOMAIN agent_metrics |-> Get(agent_metrics[a], "tool_calls", 0)])

\* sum(len(metrics.get('errors', [])) for metrics in agent_metrics.values())
TotalErrors(agent_metrics) ==
    SumOver(DOMAIN agent_metrics,
            [a \in DOMAIN agent_metrics |-> Len(Get(agent_metrics[a], "errors", <<>>))])

\* the generator calls .get on every value of the mapping
MetricsReadable(agent_metrics) == \A a \in DOMAIN agent_metrics : HasGet(agent_metrics[a])

AgentAxisResult(raised, score, strengths, weaknesses) ==
    [raised |-> raised, score |-> score, strengths |-> strengths,
     weaknesses |-> weaknesses]

\* One check of an agent axis: what it subtracts and what it appends to the
\* strengths and to the weaknesses.
AgentCheck(penalty, strengths, weaknesses) ==
    [penalty |-> penalty, strengths |-> strengths, weaknesses |-> weaknesses]

RECURSIVE Strengths(_, _)
Strengths(checks, n) ==
    IF n = 0 THEN <<>> ELSE Strengths(checks, n - 1) \o checks[n].strengths

RECURSIVE Weaknesses(_, _)
Weaknesses(checks, n) ==
    IF n = 0 THEN <<>> ELSE Weaknesses(checks, n - 1) \o checks[n].weaknesses

\* score = 100.0, the checks, return max(0, score)
RunAgentChecks(checks, strengths, weaknesses) ==
    AgentAxisResult("none", Clamp(100 - Penalties(checks, Len(checks))),
                    strengths \o Strengths(checks, Len(checks)),
                    weaknesses \o Weaknesses(checks, Len(checks)))

DurationCheck(total_duration) ==
    IF total_duration < 30
    THEN AgentCheck(0, <<"Very fast execution (" \o Fmt1(total_duration) \o "s)">>, <<>>)
    ELSE IF total_duration > 90
    THEN AgentCheck(25, <<>>, <<"Slow execution (" \o Fmt1(total_duration) \o "s)">>)
    ELSE IF total_duration > 60
    THEN AgentCheck(15, <<>>, <<"Execution time above target">>)
    ELSE AgentCheck(0, <<>>, <<>>)

\* a tool-call check that objects to no tool call at all only above 10
ToolCallCheckNoFloor(total_tool_calls) ==
    IF total_tool_calls > 10
    THEN AgentCheck(15, <<>>, <<"High tool usage (" \o ToString(total_tool_calls) \o " calls)">>)
    ELSE AgentCheck(0, <<>>, <<>>)

\* total_tool_calls = sum(metrics.get('tool_calls', 0) ...)
ToolCallCheck(total_tool_calls) ==
    IF total_tool_calls > 10
    THEN AgentCheck(15, <<>>, <<"High tool usage (" \o ToString(total_tool_calls) \o " calls)">>)
    ELSE IF total_tool_calls < 3
    THEN AgentCheck(10, <<>>, <<"Very few tool calls - may lack thoroughness">>)
    ELSE AgentCheck(0, <<>>, <<>>)

\* a slow-task check that appends one weakness for every slow task
SlowTaskCheckPerTask(task_metrics) ==
    LET slow_tasks == Len(SelectSeq(task_metrics, LAMBDA t : Get(t, "duration", 0) > 30))
    IN  AgentCheck(10 * slow_tasks, <<>>,
                   [i \in 1..slow_tasks |-> ToString(slow_tasks) \o " slow tasks detected"])

\* slow_tasks = [t for t in task_metrics if t.get('duration', 0) > 30]
SlowTaskCheck(task_metrics) ==
    LET slow_tasks == Len(SelectSeq(task_metrics, LAMBDA t : Get(t, "duration", 0) > 30))
    IN  IF slow_tasks > 0
        THEN AgentCheck(10 * slow_tasks, <<>>,
                        <<ToString(slow_tasks) \o " slow tasks detected">>)
        ELSE AgentCheck(0, <<>>, <<>>)

\* The duration check has appended its message when the sum over the metrics
\* raises; the exception then leaves evaluate_agent_performance.
Evaluate_efficiency(agent_metrics, task_metrics, total_duration, strengths, weaknesses) ==
    IF ~MetricsReadable(agent_metrics)
    THEN AgentAxisResult("AttributeError", 0, strengths, weaknesses)
    ELSE RunAgentChecks(<<DurationCheck(total_duration),
                          ToolCallCheck(TotalToolCalls(agent_metrics)),
                          SlowTaskCheck(task_metrics)>>,
                        strengths, weaknesses)

ErrorCheck(total_errors) ==
    IF total_errors = 0
    THEN AgentCheck(0, <<"Zero errors during execution">>, <<>>)
    ELSE AgentCheck(20 * total_errors, <<>>, <<ToString(total_errors) \o " errors occurred">>)

\* a failed-task check that counts only the tasks whose status is 'failed'
FailedTaskCheckOnlyFailed(task_metrics) ==
    LET failed_tasks ==
            Len(SelectSeq(task_metrics, LAMBDA t : Get(t, "status", "None") = "failed"))
    IN  IF failed_tasks > 0
        THEN AgentCheck(30 * failed_tasks, <<>>, <<ToString(failed_tasks) \o " tasks failed">>)
        ELSE AgentCheck(0, <<"All tasks completed successfully">>, <<>>)

\* failed_tasks = [t for t in task_metrics if t.get('status') != 'completed']
FailedTaskCheck(task_metrics) ==
    LET failed_tasks ==
            Len(SelectSeq(task_metrics, LAMBDA t : Get(t, "status", "None") # "completed"))
    IN  IF failed_tasks > 0
        THEN AgentCheck(30 * failed_tasks, <<>>, <<ToString(failed_tasks) \o " tasks failed">>)
        ELSE AgentCheck(0, <<"All tasks completed successfully">>, <<>>)

\* variance = sum((d - avg) ** 2 for d in durations) / len(durations) > 100 with
\* avg = sum(durations) / len(durations), multiplied out by len(durations) ** 2
VarianceAbove100(durations) ==
    LET n  == Len(durations)
        s1 == SumSeq(durations)
        s2 == SumSeq([i \in 1..n |-> durations[i] * durations[i]])
    IN  n * s2 - s1 * s1 > 100 * n * n

\* durations = [t.get('duration', 0) for t in task_metrics if t.get('duration', 0) > 0]
ConsistencyCheck(task_metrics) ==
    LET all == [i \in 1..Len(task_metrics) |-> Get(task_metrics[i], "duration", 0)]
        durations == SelectSeq(all, LAMBDA d : d > 0)
    IN  IF durations # <<>> /\ VarianceAbove100(durations)
        THEN AgentCheck(10, <<>>, <<"Inconsistent task completion times">>)
        ELSE AgentCheck(0, <<>>, <<>>)

Evaluate_reliability(agent_metrics, task_metrics, strengths, weaknesses) ==
    IF ~MetricsReadable(agent_metrics)
    THEN AgentAxisResult("AttributeError", 0, strengths, weaknesses)
    ELSE RunAgentChecks(<<ErrorCheck(TotalErrors(agent_metrics)),
                          FailedTaskCheck(task_metrics), ConsistencyCheck(task_metrics)>>,
                        strengths, weaknesses)

\* a short-output check that also objects to a task without output
ShortOutputCheckIncludesEmpty(task) ==
    LET output_len == Get(task, "output_length", 0)
    IN  IF output_len < 50
        THEN AgentCheck(15, <<>>,
                        <<"Task produced very short output (" \o ToString(output_len) \o " chars)">>)
        ELSE AgentCheck(0, <<>>, <<>>)

\* the body of the loop over the tasks
ShortOutputCheck(task) ==
    LET output_len == Get(task, "output_length", 0)
    IN  IF output_len > 0 /\ output_len < 50
        THEN AgentCheck(15, <<>>,
                        <<"Task produced very short output (" \o ToString(output_len) \o " chars)">>)
        ELSE AgentCheck(0, <<>>, <<>>)

\* substantial_outputs = [t for t in task_metrics if t.get('output_length', 0) > 500]
SubstantialCheck(task_metrics) ==
    LET substantial_outputs ==
            Len(SelectSeq(task_metrics, LAMBDA t : Get(t, "output_length", 0) > 500))
    IN  IF substantial_outputs > 0
        THEN AgentCheck(0, <<ToString(substantial_outputs) \o " tasks with substantial output">>,
                        <<>>)
        ELSE AgentCheck(0, <<>>, <<>>)

Evaluate_quality(task_metrics, strengths, weaknesses) ==
    RunAgentChecks([i \in 1..Len(task_metrics) |-> ShortOutputCheck(task_metrics[i])]
                     \o <<SubstantialCheck(task_metrics)>>,
                   strengths, weaknesses)

\* a grade mapping whose bands exclude their lower bound
Agent_score_to_grade_exclusive(score) ==
    IF score > 90 * 10000 THEN "A"
    ELSE IF score > 80 * 10000 THEN "B"
    ELSE IF score > 70 * 10000 THEN "C"
    ELSE IF score > 60 * 10000 THEN "D"
    ELSE "F"

\* AgentEvaluator._score_to_grade; score in fine units
Agent_score_to_grade(score) ==
    IF score >= 90 * 10000 THEN "A"
    ELSE IF score >= 80 * 10000 THEN "B"
    ELSE IF score >= 70 * 10000 THEN "C"
    ELSE IF score >= 60 * 10000 THEN "D"
    ELSE "F"

\* an overall score with the weights of reliability and quality swapped for 0.30 and 0.40
AgentOverallUneven(ef, re, qu) == ef * 3000 + re * 3000 + qu * 4000

\* efficiency * 0.30 + reliability * 0.35 + quality * 0.35, in fine units
AgentOverall(ef, re, qu) == ef * 3000 + re * 3500 + qu * 3500

AgentPerformanceScore(ef, re, qu, overall, grade, strengths, weaknesses) ==
    [raised |-> "none",
     efficiency_score |-> Round2(ef * 10000),
     reliability_score |-> Round2(re * 10000),
     quality_score |-> Round2(qu * 10000),
     overall_score |-> Round2(overall),
     grade |-> grade,
     strengths |-> strengths,
     weaknesses |-> weaknesses]

Evaluate_agent_performance(args) ==
    LET ef == Evaluate_efficiency(args.agent_metrics, args.task_metrics,
                                  args.total_duration, <<>>, <<>>)
        re == Evaluate_reliability(args.agent_metrics, args.task_metrics,
                                   ef.strengths, ef.weaknesses)
        qu == Evaluate_quality(args.task_metrics, re.strengths, re.weaknesses)
        overall == AgentOverall(ef.score, re.score, qu.score)
    IN  IF ef.raised # "none" THEN Raised(ef.raised)
        ELSE IF re.raised # "none" THEN Raised(re.raised)
        ELSE AgentPerformanceScore(ef.score, re.score, qu.score, overall,
                                   Agent_score_to_grade(overall),
                                   qu.strengths, qu.weaknesses)

(***************************************************************************)
(* Inputs of the evaluators                                                *)
(***************************************************************************)

\* how many properties of a document differ from a reference document
MaxDeviations == 2

\* the longest run of equal tasks in a task list
MaxRun == 4

\* A document is described by the properties the evaluator reads; each has a
\* few values on both sides of every threshold the code compares it with.
Properties ==
    [title_len |-> {29, 30, 49, 50, 55, 70, 71},
     title_words |-> {<<"Hiking", "Trails", "guide">>, <<"Hiking", "hiking", "map">>,
                      <<"top", "ten", "tips">>},
     tags |-> {<<"travel", " ", "food">>, <<"travel", "food", "", "hiking">>,
               <<"a", "b", "c", "d", "e", "f", "g">>,
               <<"a", "b", "c", "d", "e", "f", "g", "h">>},
     reading_ease |-> {49, 50, 59, 60},
     grade_level |-> {5, 6, 12, 13},
     avg_sentence_length |-> {25, 26},
     fault |-> {"none", "flesch_reading_ease", "flesch_kincaid_grade",
                "avg_sentence_length", "structure", "seo", "completeness"},
     h2 |-> {0, 2, 3, 8, 9},
     h3 |-> {0, 1},
     p |-> {0, 1, 4, 5, 6, 18},
     first_words |-> {29, 30},
     last_words |-> {29, 30},
     last_text |-> {{}, {"In Conclusion"}, {"Finally"}},
     lists |-> {0, 1},
     strong |-> {0, 1},
     h1 |-> {{}, {"<h1>"}, {"<H1>"}, {"<h1 class=\"title\">"}},
     marker |-> {{}, {"Lorem Ipsum"}, {"xxx"}},
     body_words |-> {{"hiking", "trails"}, {"Hiking"}},
     word_count |-> {400, 499, 500, 799, 800, 2000, 2001}]

\* a document no check objects to
GoodDocument ==
    [title_len |-> 55, title_words |-> <<"Hiking", "Trails", "guide">>,
     tags |-> <<"travel", "food", "hiking", "alps">>,
     reading_ease |-> 65, grade_level |-> 9, avg_sentence_length |-> 18,
     fault |-> "none", h2 |-> 3, h3 |-> 1, p |-> 6, first_words |-> 40,
     last_words |-> 40, last_text |-> {}, lists |-> 1, strong |-> 1, h1 |-> {},
     marker |-> {}, body_words |-> {"hiking", "trails"}, word_count |-> 1000]

\* a document every check objects to
PoorDocument ==
    [title_len |-> 12, title_words |-> <<"top", "ten", "tips">>,
     tags |-> <<"travel">>,
     reading_ease |-> 30, grade_level |-> 15, avg_sentence_length |-> 32,
     fault |-> "none", h2 |-> 2, h3 |-> 0, p |-> 2, first_words |-> 10,
     last_words |-> 10, last_text |-> {}, lists |-> 0, strong |-> 0, h1 |-> {"<h1>"},
     marker |-> {"TODO"}, body_words |-> {}, word_count |-> 120]

\* every (property, value) of Properties
Changes == UNION {{<<f, v>> : v \in Properties[f]} : f \in DOMAIN Properties}

RECURSIVE Deviations(_)
Deviations(k) ==
    IF k = 0 THEN {GoodDocument, PoorDocument}
    ELSE {[d EXCEPT ![change[1]] = change[2]] : d \in Deviations(k - 1), change \in Changes}

\* soup.find_all('p'): the first paragraph, short ones between, the last one
Paragraphs(d) ==
    [i \in 1..d.p |->
        [words |-> IF i = 1 THEN d.first_words ELSE IF i = d.p THEN d.last_words ELSE 5,
         text |-> IF i = d.p THEN d.last_text ELSE {}]]

\* the arguments of evaluate_content for a document
ContentArgs(d) ==
    [title |-> [length |-> d.title_len, words |-> d.title_words],
     tags |-> d.tags,
     content |-> [reading_ease |-> d.reading_ease, grade_level |-> d.grade_level,
                  avg_sentence_length |-> d.avg_sentence_length, fault |-> d.fault,
                  h2_tags |-> d.h2, h3_tags |-> d.h3, p_tags |-> Paragraphs(d),
                  lists |-> d.lists, strong_tags |-> d.strong,
                  raw |-> d.h1 \cup d.marker \cup d.body_words,
                  word_count |-> d.word_count]]

ContentInputs == {ContentArgs(d) : d \in Deviations(MaxDeviations)}

\* TaskMetrics.to_dict() of a task
TaskDict(status, duration, output_length) ==
    PyDict([status |-> status, duration |-> duration, output_length |-> output_length])

TaskKinds ==
    {TaskDict("completed", 10, 600), TaskDict("completed", 40, 600),
     TaskDict("completed", 10, 10), TaskDict("completed", 31, 49),
     TaskDict("running", 0, 0), TaskDict("failed", 30, 50),
     PyDict([status |-> "completed"])}

Repeat(x, n) == [i \in 1..n |-> x]

TaskLists ==
    {Repeat(a, i) \o Repeat(b, j) : <<a, b>> \in TaskKinds \X TaskKinds,
                                    <<i, j>> \in (0..MaxRun) \X (0..MaxRun)}

\* the metrics of one agent: asdict(AgentMetrics), or the AgentMetrics itself
MetricsDict(tool_calls, errors) == PyDict([tool_calls |-> tool_calls, errors |-> errors])

AgentMetricsInputs ==
    {<<>>,
     [a \in {"Researcher"} |-> MetricsDict(5, <<>>)],
     [a \in {"Researcher", "Writer"} |-> IF a = "Writer" THEN MetricsDict(3, <<>>)
                                           ELSE MetricsDict(2, <<>>)],
     [a \in {"Researcher", "Writer"} |-> IF a = "Writer" THEN MetricsDict(1, <<"timeout">>)
                                           ELSE MetricsDict(1, <<>>)],
     [a \in {"Researcher", "Writer"} |-> IF a = "Writer" THEN MetricsDict(8, <<>>)
                                           ELSE MetricsDict(2, <<>>)],
     [a \in {"Researcher", "Writer"} |-> MetricsDict(6, Repeat("timeout", 3))],
     [a \in {"Researcher"} |-> PyDict([agent_name |-> a])],
     [a \in {"Researcher"} |->
        PyObject("AgentMetrics", [tool_calls |-> 5, errors |-> <<>>])],
     [a \in {"Researcher", "Writer"} |->
        IF a = "Writer" THEN PyObject("AgentMetrics", [tool_calls |-> 0, errors |-> <<"timeout">>])
        ELSE MetricsDict(5, <<>>)]}

TotalDurations == {0, 25, 30, 60, 61, 90, 91}

AgentInputs ==
    [agent_metrics : AgentMetricsInputs, task_metrics : TaskLists,
     total_duration : TotalDurations]

\* scores on both sides of every grade boundary, in hundredths
ScoreInputs == 0..(100 * 100)

(***************************************************************************)
(* The evaluators as operations                                            *)
(***************************************************************************)
InitContent ==
    /\ content_args \in ContentInputs
    /\ content_eval = None
    /\ agent_args = None /\ agent_eval = None
    /\ score_in = None /\ grades = None
    /\ calls = None /\ heap = None
    /\ crew = None /\ observer = None /\ now = 0
    /\ files = None /\ stdout = None

InitAgent ==
    /\ agent_args \in AgentInputs
    /\ agent_eval = None
    /\ content_args = None /\ content_eval = None
    /\ score_in = None /\ grades = None
    /\ calls = None /\ heap = None
    /\ crew = None /\ observer = None /\ now = 0
    /\ files = None /\ stdout = None

InitGrade ==
    /\ score_in \in [score : ScoreInputs]
    /\ grades = None
    /\ content_args = None /\ content_eval = None
    /\ agent_args = None /\ agent_eval = None
    /\ calls = None /\ heap = None
    /\ crew = None /\ observer = None /\ now = 0
    /\ files = None /\ stdout = None

\* content_evaluator.evaluate_content(title, content, tags)
EvaluateContent ==
    /\ content_args # None
    /\ content_eval = None
    /\ content_eval' = Evaluate_content(content_args)
    /\ UNCHANGED <<content_args, agent_args, agent_eval, score_in, grades, calls,
                   heap, crew, observer, now, files, stdout>>

\* agent_evaluator.evaluate_agent_performance(agent_metrics, task_metrics, total_duration)
EvaluateAgentPerformance ==
    /\ agent_args # None
    /\ agent_eval = None
    /\ agent_eval' = Evaluate_agent_performance(agent_args)
    /\ agent_args' = AgentArgsAfter(agent_args)
    /\ UNCHANGED <<content_args, content_eval, score_in, grades, calls,
                   heap, crew, observer, now, files, stdout>>

\* _score_to_grade(score) of both evaluators
ScoreToGrade ==
    /\ score_in # None
    /\ grades = None
    /\ grades' = [content |-> Content_score_to_grade(score_in.score * 100),
                  agent |-> Agent_score_to_grade(score_in.score * 100)]
    /\ UNCHANGED <<content_args, content_eval, agent_args, agent_eval, score_in,
                   calls, heap, crew, observer, now, files, stdout>>

SpecContent == InitContent /\ [][EvaluateContent]_vars

SpecAgent == InitAgent /\ [][EvaluateAgentPerformance]_vars

InitEval == InitContent \/ InitAgent \/ InitGrade

NextEval == EvaluateContent \/ EvaluateAgentPerformance \/ ScoreToGrade

SpecEval == InitEval /\ [][NextEval]_vars

(***************************************************************************)
(* Properties                                                              *)
(***************************************************************************)
Returned(eval) == eval # None /\ eval.raised = "none"

Has(list, message) == \E i \in DOMAIN list : list[i] = message

\* a returned score, in hundredths, is in [0, 100]
InRange(score) == 0 <= score /\ score <= 100 * 100

\* the band of a returned score (in hundredths)
Band(score) ==
    IF score >= 9000 THEN "A"
    ELSE IF score >= 8000 THEN "B"
    ELSE IF score >= 7000 THEN "C"
    ELSE IF score >= 6000 THEN "D"
    ELSE "F"

GradeRank(grade) ==
    CASE grade = "F" -> 0 [] grade = "D" -> 1 [] grade = "C" -> 2
      [] grade = "B" -> 3 [] grade = "A" -> 4

\* C1: every axis score and the overall score returned by evaluate_content and
\* by evaluate_agent_performance lie in [0, 100], however many penalties add up.
C1_ScoresInRange ==
    /\ Returned(content_eval) =>
         /\ InRange(content_eval.readability_score)
         /\ InRange(content_eval.structure_score)
         /\ InRange(content_eval.seo_score)
         /\ InRange(content_eval.completeness_score)
         /\ InRange(content_eval.overall_score)
    /\ Returned(agent_eval) =>
         /\ InRange(agent_eval.efficiency_score)
         /\ InRange(agent_eval.reliability_score)
         /\ InRange(agent_eval.quality_score)
         /\ InRange(agent_eval.overall_score)

\* C1 witness: a run whose penalties exceed 100 on all three axes (eight slow
\* tasks with short output, six errors) is scored 0 on each.
C1_Witness ==
    /\ Returned(agent_eval)
    /\ Len(agent_args.task_metrics) = 2 * MaxRun
    /\ TotalErrors(agent_args.agent_metrics) = 6
    /\ agent_eval.efficiency_score = 0
    /\ agent_eval.reliability_score = 0
    /\ agent_eval.quality_score = 0
    /\ agent_eval.overall_score = 0

\* C2: the returned content overall_score is exactly the mean of the four
\* returned axis scores.
C2_OverallIsMean ==
    Returned(content_eval) =>
        4 * content_eval.overall_score =
            content_eval.readability_score + content_eval.structure_score
              + content_eval.seo_score + content_eval.completeness_score

\* C2 witness: readability fell back to 75 and the mean is not a whole number.
C2_Witness ==
    /\ Returned(content_eval)
    /\ content_args.content.fault = "flesch_reading_ease"
    /\ content_eval.readability_score = 7500
    /\ content_eval.overall_score % 100 # 0

\* C3: the returned agent overall_score is 0.30 * efficiency + 0.35 * reliability
\* + 0.35 * quality of the returned axis scores, each in [0, 100], and the
\* weights sum to 1.
C3_OverallIsWeightedSum ==
    /\ AgentOverall(1, 1, 1) = 10000
    /\ Returned(agent_eval) =>
         /\ 100 * agent_eval.overall_score =
                30 * agent_eval.efficiency_score + 35 * agent_eval.reliability_score
                  + 35 * agent_eval.quality_score
         /\ InRange(agent_eval.efficiency_score)
         /\ InRange(agent_eval.reliability_score)
         /\ InRange(agent_eval.quality_score)

\* C3 witness: the three axes differ and one of them was clamped to 0.
C3_Witness ==
    /\ Returned(agent_eval)
    /\ agent_eval.reliability_score = 0
    /\ TotalErrors(agent_args.agent_metrics) = 6
    /\ agent_eval.efficiency_score = 8500
    /\ agent_eval.quality_score = 7000

\* C4: the returned grade is the band of the returned overall_score in both
\* evaluators, the mapping never decreases, and the two _score_to_grade agree.
C4_GradeIsBand ==
    /\ Returned(content_eval) => content_eval.grade = Band(content_eval.overall_score)
    /\ Returned(agent_eval) => agent_eval.grade = Band(agent_eval.overall_score)
    /\ grades # None =>
         /\ grades.content = Band(score_in.score)
         /\ grades.agent = grades.content
         /\ GradeRank(grades.content)
              <= GradeRank(Content_score_to_grade((score_in.score + 1) * 100))
         /\ GradeRank(grades.agent)
              <= GradeRank(Agent_score_to_grade((score_in.score + 1) * 100))

\* C4 witness: a score on a boundary gets the grade of the band above it.
C4_Witness ==
    /\ grades # None
    /\ score_in.score = 6000
    /\ grades.content = "D"
    /\ grades.agent = "D"

\* C5: evaluate_agent_performance never raises: it returns a score for every
\* mapping of agent names to metrics, every task list and every duration.
C5_NeverRaises == agent_eval # None => agent_eval.raised = "none"

\* C6: a failure inside any one of the four content axes does not reach the
\* caller: a score is returned, with an issue recorded for the failed axis.
C6_AxisFailureIsolated ==
    (content_eval # None /\ content_args.content.fault # "none") =>
        /\ content_eval.raised = "none"
        /\ \E i \in DOMAIN content_eval.issues :
              content_eval.issues[i] \in
                  {"Could not fully assess " \o axis \o ": " \o content_args.content.fault :
                      axis \in {"readability", "structure", "seo", "completeness"}}

TextstatFaults == {"flesch_reading_ease", "flesch_kincaid_grade", "avg_sentence_length"}

\* the same call with no metric failing
WithoutFault(args) == [args EXCEPT !.content.fault = "none"]

\* C7: when a readability metric fails, the readability score is exactly 75
\* whatever was subtracted before, the issue is recorded, and the other three
\* axis scores are those of the same input without the failure.
C7_ReadabilityFallback ==
    (Returned(content_eval) /\ content_args.content.fault \in TextstatFaults) =>
        /\ content_eval.readability_score = 7500
        /\ Has(content_eval.issues,
               "Could not fully assess readability: " \o content_args.content.fault)
        /\ LET clean == Evaluate_content(WithoutFault(content_args))
           IN  /\ content_eval.structure_score = clean.structure_score
               /\ content_eval.seo_score = clean.seo_score
               /\ content_eval.completeness_score = clean.completeness_score

\* C7 witness: the sentence-length metric fails after 35 points were subtracted
\* for reading ease and grade level.
C7_Witness ==
    /\ Returned(content_eval)
    /\ content_args.content.fault = "avg_sentence_length"
    /\ content_args.content.reading_ease < 50
    /\ content_args.content.grade_level > 12
    /\ content_eval.readability_score = 7500

ScenarioA ==
    /\ Returned(content_eval)
    /\ content_args.content.h2_tags = 2
    /\ content_args.content.word_count = 400

ScenarioAIssues ==
    /\ Has(content_eval.issues, "Only 2 main sections (H2). Need at least 3")
    /\ Has(content_eval.issues, "Content too short (400 words). Target: 800-1500")

\* C8 as stated: 2 second-level headings and 400 words give both issues, an
\* overall_score below 70 and grade D or F.
C8_ScenarioA_Below70 ==
    ScenarioA =>
        /\ ScenarioAIssues
        /\ content_eval.overall_score < 7000
        /\ content_eval.grade \in {"D", "F"}

\* C8 amended: 2 second-level headings and 400 words give both issues, an
\* overall_score of at most 77.5 and grade C, D or F.
C8_ScenarioA_AtMost77 ==
    ScenarioA =>
        /\ ScenarioAIssues
        /\ content_eval.overall_score <= 7750
        /\ content_eval.grade \in {"C", "D", "F"}

\* C8 witness: such a content with nothing else wrong is scored 77.5, grade C.
C8_Witness ==
    /\ ScenarioA
    /\ ScenarioAIssues
    /\ content_eval.overall_score = 7750
    /\ content_eval.grade = "C"

(***************************************************************************)
(* Calls in progress.  Several evaluator calls run on one ContentEvaluator *)
(* and one AgentEvaluator and are interleaved between their axes.  A frame *)
(* holds a call's arguments, position and axis scores; its two lists are   *)
(* objects of the heap, which the axis methods append to in place.         *)
(***************************************************************************)

\* how many calls are in progress at once
MaxCalls == 2

CallIds == 1..MaxCalls

\* lists kept on the evaluator instance, one for all its calls
ListRefOnInstance(call, name) == <<0, name>>

\* issues = [], recommendations = [] (strengths = [], weaknesses = []): every
\* call creates list objects of its own
ListRef(call, name) == <<call, name>>

CallInputs ==
    {[kind |-> "content", args |-> ContentArgs(GoodDocument)],
     [kind |-> "content", args |-> ContentArgs(PoorDocument)],
     [kind |-> "content",
      args |-> ContentArgs([PoorDocument EXCEPT !.fault = "avg_sentence_length"])],
     [kind |-> "content", args |-> ContentArgs([GoodDocument EXCEPT !.fault = "seo"])],
     [kind |-> "agent",
      args |-> [agent_metrics |-> <<>>,
                task_metrics |-> <<TaskDict("completed", 10, 10), TaskDict("completed", 40, 600)>>,
                total_duration |-> 25]],
     [kind |-> "agent",
      args |-> [agent_metrics |-> [a \in {"Researcher"} |-> MetricsDict(11, <<"timeout">>)],
                task_metrics |-> <<TaskDict("running", 0, 0)>>,
                total_duration |-> 91]]}

InitCalls ==
    /\ calls \in [CallIds -> {[kind |-> i.kind, args |-> i.args, pc |-> "start",
                               scores |-> <<>>, result |-> None] : i \in CallInputs}]
    /\ heap = <<>>
    /\ content_args = None /\ content_eval = None
    /\ agent_args = None /\ agent_eval = None
    /\ score_in = None /\ grades = None
    /\ crew = None /\ observer = None /\ now = 0
    /\ files = None /\ stdout = None

Lists(c) ==
    IF calls[c].kind = "content"
    THEN <<ListRef(c, "issues"), ListRef(c, "recommendations")>>
    ELSE <<ListRef(c, "strengths"), ListRef(c, "weaknesses")>>

CallFrame ==
    UNCHANGED <<content_args, content_eval, agent_args, agent_eval, score_in, grades,
                crew, observer, now, files, stdout>>

\* the axis of call c that is next has returned result r, or raised
AxisDone(c, r, first, second, next) ==
    /\ calls' = [calls EXCEPT ![c].pc = IF r.raised = "none" THEN next ELSE "raised",
                              ![c].scores = Append(@, r.score),
                              ![c].result = IF r.raised = "none" THEN @ ELSE Raised(r.raised)]
    /\ heap' = [heap EXCEPT ![Lists(c)[1]] = first, ![Lists(c)[2]] = second]
    /\ CallFrame

\* the two empty lists of a call
StartCall(c) ==
    /\ calls[c].pc = "start"
    /\ calls' = [calls EXCEPT ![c].pc = IF calls[c].kind = "content" THEN "readability"
                                        ELSE "efficiency"]
    /\ heap' = (Lists(c)[1] :> <<>>) @@ (Lists(c)[2] :> <<>>) @@ heap
    /\ CallFrame

ReadabilityStep(c) ==
    /\ calls[c].pc = "readability"
    /\ LET r == Evaluate_readability(calls[c].args.content,
                                     heap[Lists(c)[1]], heap[Lists(c)[2]])
       IN  AxisDone(c, r, r.issues, r.recommendations, "structure")

StructureStep(c) ==
    /\ calls[c].pc = "structure"
    /\ LET r == Evaluate_structure(calls[c].args.content,
                                   heap[Lists(c)[1]], heap[Lists(c)[2]])
       IN  AxisDone(c, r, r.issues, r.recommendations, "seo")

SeoStep(c) ==
    /\ calls[c].pc = "seo"
    /\ LET a == calls[c].args
           r == Evaluate_seo(a.title, a.content, a.tags, a.content.word_count,
                             heap[Lists(c)[1]], heap[Lists(c)[2]])
       IN  AxisDone(c, r, r.issues, r.recommendations, "completeness")

CompletenessStep(c) ==
    /\ calls[c].pc = "completeness"
    /\ LET a == calls[c].args
           r == Evaluate_completeness(a.content, a.content.word_count,
                                      heap[Lists(c)[1]], heap[Lists(c)[2]])
       IN  AxisDone(c, r, r.issues, r.recommendations, "return_content")

\* overall score, grade and the ContentQualityScore around the two lists
ReturnContent(c) ==
    /\ calls[c].pc = "return_content"
    /\ LET sc == calls[c].scores
           overall == ContentOverall(sc[1], sc[2], sc[3], sc[4])
       IN  calls' = [calls EXCEPT
                       ![c].pc = "done",
                       ![c].result =
                           ContentQualityScore(sc[1], sc[2], sc[3], sc[4], overall,
                                               Content_score_to_grade(overall),
                                               heap[Lists(c)[1]], heap[Lists(c)[2]])]
    /\ UNCHANGED heap
    /\ CallFrame

EfficiencyStep(c) ==
    /\ calls[c].pc = "efficiency"
    /\ LET a == calls[c].args
           r == Evaluate_efficiency(a.agent_metrics, a.task_metrics, a.total_duration,
                                    heap[Lists(c)[1]], heap[Lists(c)[2]])
       IN  AxisDone(c, r, r.strengths, r.weaknesses, "reliability")

ReliabilityStep(c) ==
    /\ calls[c].pc = "reliability"
    /\ LET a == calls[c].args
           r == Evaluate_reliability(a.agent_metrics, a.task_metrics,
                                     heap[Lists(c)[1]], heap[Lists(c)[2]])
       IN  AxisDone(c, r, r.strengths, r.weaknesses, "quality")

QualityStep(c) ==
    /\ calls[c].pc = "quality"
    /\ LET r == Evaluate_quality(calls[c].args.task_metrics,
                                 heap[Lists(c)[1]], heap[Lists(c)[2]])
       IN  AxisDone(c, r, r.strengths, r.weaknesses, "return_agent")

ReturnAgent(c) ==
    /\ calls[c].pc = "return_agent"
    /\ LET sc == calls[c].scores
           overall == AgentOverall(sc[1], sc[2], sc[3])
       IN  calls' = [calls EXCEPT
                       ![c].pc = "done",
                       ![c].result =
                           AgentPerformanceScore(sc[1], sc[2], sc[3], overall,
                                                 Agent_score_to_grade(overall),
                                                 heap[Lists(c)[1]], heap[Lists(c)[2]])]
    /\ UNCHANGED heap
    /\ CallFrame

NextCalls ==
    \E c \in CallIds :
        \/ StartCall(c)
        \/ ReadabilityStep(c)
        \/ StructureStep(c)
        \/ SeoStep(c)
        \/ CompletenessStep(c)
        \/ ReturnContent(c)
        \/ EfficiencyStep(c)
        \/ ReliabilityStep(c)
        \/ QualityStep(c)
        \/ ReturnAgent(c)

SpecCalls == InitCalls /\ [][NextCalls]_vars

\* the result of the same call run alone
Alone(call) ==
    IF call.kind = "content" THEN Evaluate_content(call.args)
    ELSE Evaluate_agent_performance(call.args)

\* C9: a call's result depends only on its arguments: however the calls on the
\* evaluators are interleaved, each returns what it returns when run alone, and
\* two calls with identical arguments return identical results.
C9_ResultDependsOnArguments ==
    \A c \in CallIds :
        calls[c].pc \in {"done", "raised"} =>
            /\ calls[c].result = Alone(calls[c])
            /\ \A d \in CallIds :
                  (calls[d].pc \in {"done", "raised"} /\ calls[d].args = calls[c].args
                     /\ calls[d].kind = calls[c].kind)
                    => calls[d].result = calls[c].result

\* C9 witness: two evaluate_content calls with identical arguments, run on the
\* same evaluator, have both returned, with issues recorded.
C9_Witness ==
    /\ calls[1].kind = "content" /\ calls[2].kind = "content"
    /\ calls[1].args = calls[2].args
    /\ calls[1].pc = "done" /\ calls[2].pc = "done"
    /\ Len(calls[1].result.issues) > 3
    /\ calls[1].result = calls[2].result

(***************************************************************************)
(* EvaluationReporter.  The file system is a record: whether a file can be *)
(* opened for writing, the paths open() has been called with, and the      *)
(* content of the files written.  A JSON text is modelled by its tokens.   *)
(***************************************************************************)

\* the fields of the two dataclasses
ContentFields ==
    {"readability_score", "structure_score", "seo_score", "completeness_score",
     "overall_score", "grade", "issues", "recommendations"}

AgentFields ==
    {"efficiency_score", "reliability_score", "quality_score", "overall_score",
     "grade", "strengths", "weaknesses"}

ScoreFields ==
    {"readability_score", "structure_score", "seo_score", "completeness_score",
     "efficiency_score", "reliability_score", "quality_score", "overall_score"}

\* to_dict(): asdict(self), a new dict of the fields with the lists copied
ToDict(score, fields) == [f \in fields |-> score[f]]

\* a number written with one digit after the point
JsonNumberOneDecimal(h) == [whole |-> h \div 100, fraction |-> <<(h % 100) \div 10>>]

\* json writes a float by repr: the whole part, the point and the digits after
\* it without trailing zeros, at least one (77.5, 100.0, 86.25); h in hundredths
JsonNumber(h) ==
    [whole |-> h \div 100,
     fraction |-> IF h % 10 = 0 THEN <<(h % 100) \div 10>>
                  ELSE <<(h % 100) \div 10, h % 10>>]

\* json.load of a number, in hundredths
JsonParseNumber(t) ==
    t.whole * 100 + t.fraction[1] * 10 + (IF Len(t.fraction) > 1 THEN t.fraction[2] ELSE 0)

\* a string is written between quotes
JsonString(s) == [string |-> s]

JsonParseString(t) == t.string

\* json.dump of a score dict: an object with a number, a string or an array of
\* strings under each key
JsonDumpScore(d) ==
    [f \in DOMAIN d |->
        IF f \in ScoreFields THEN JsonNumber(d[f])
        ELSE IF f = "grade" THEN JsonString(d[f])
        ELSE [i \in DOMAIN d[f] |-> JsonString(d[f][i])]]

\* json.load of that object
JsonLoadScore(t) ==
    [f \in DOMAIN t |->
        IF f \in ScoreFields THEN JsonParseNumber(t[f])
        ELSE IF f = "grade" THEN JsonParseString(t[f])
        ELSE [i \in DOMAIN t[f] |-> JsonParseString(t[f][i])]]

\* datetime.now().isoformat()
IsoFormat(t) == "T" \o ToString(t)

\* What a reporter call leaves behind: the exception it let escape, the score
\* objects it was given as they are after the call, the file system and the
\* printed lines.
ReportOutcome(raised, content, agent, fs, out) ==
    [raised |-> raised, content_eval |-> content, agent_eval |-> agent,
     files |-> fs, stdout |-> out]

\* print_content_evaluation: the fields are read and the lists iterated
Print_content_evaluation(evaluation, fs, out) ==
    ReportOutcome("none", evaluation, None, fs,
                  out \o <<"CONTENT QUALITY EVALUATION">> \o evaluation.issues
                      \o evaluation.recommendations)

\* print_agent_evaluation
Print_agent_evaluation(evaluation, fs, out) ==
    ReportOutcome("none", None, evaluation, fs,
                  out \o <<"AGENT PERFORMANCE EVALUATION">> \o evaluation.strengths
                      \o evaluation.weaknesses)

ExportedMessage(filepath) == "Evaluation report exported to " \o filepath

\* an export that catches the failure of the write and carries on
Export_evaluation_swallows(content_eval_, agent_eval_, filepath, fs, out, t) ==
    ReportOutcome("none", content_eval_, agent_eval_,
                  [fs EXCEPT !.attempts = Append(@, filepath)],
                  Append(out, ExportedMessage(filepath)))

\* export_evaluation: data is built from the two to_dict(), the file is opened
\* once for writing (which raises when it cannot be), data is dumped, and the
\* message is printed
Export_evaluation(content_eval_, agent_eval_, filepath, fs, out, t) ==
    LET data == [content_quality |-> JsonDumpScore(ToDict(content_eval_, ContentFields)),
                 agent_performance |-> JsonDumpScore(ToDict(agent_eval_, AgentFields)),
                 timestamp |-> JsonString(IsoFormat(t))]
        opened == [fs EXCEPT !.attempts = Append(@, filepath)]
    IN  IF fs.writable
        THEN ReportOutcome("none", content_eval_, agent_eval_,
                           [opened EXCEPT !.written = (filepath :> data) @@ @],
                           Append(out, ExportedMessage(filepath)))
        ELSE ReportOutcome("OSError", content_eval_, agent_eval_, opened, out)

\* an empty file system
FileSystems == [writable : BOOLEAN, attempts : {<<>>}, written : {<<>>}]

\* The evaluations handed to the reporter: a few documents, and runs of at most
\* one task.
ReportContentInputs ==
    {ContentArgs(GoodDocument), ContentArgs(PoorDocument),
     ContentArgs([GoodDocument EXCEPT !.word_count = 400, !.h2 = 2]),
     ContentArgs([PoorDocument EXCEPT !.fault = "avg_sentence_length"]),
     ContentArgs([GoodDocument EXCEPT !.title_len = 49, !.h3 = 0, !.strong = 0])}

ReportAgentInputs ==
    {a \in AgentInputs : Len(a.task_metrics) <= 1 /\ a.total_duration \in {25, 91}}

InitReport ==
    /\ content_args \in ReportContentInputs
    /\ agent_args \in ReportAgentInputs
    /\ content_eval = None /\ agent_eval = None
    /\ files \in FileSystems
    /\ stdout = <<>>
    /\ now = 1000
    /\ score_in = None /\ grades = None
    /\ calls = None /\ heap = None
    /\ crew = None /\ observer = None

ReportFrame ==
    UNCHANGED <<content_args, agent_args, score_in, grades, calls, heap, crew,
                observer, now>>

\* EvaluationReporter.print_content_evaluation(content_eval), once
PrintContentEvaluation ==
    /\ Returned(content_eval)
    /\ ~Has(stdout, "CONTENT QUALITY EVALUATION")
    /\ LET out == Print_content_evaluation(content_eval, files, stdout)
       IN  /\ content_eval' = out.content_eval
           /\ files' = out.files
           /\ stdout' = out.stdout
    /\ UNCHANGED agent_eval
    /\ ReportFrame

\* EvaluationReporter.print_agent_evaluation(agent_eval), once
PrintAgentEvaluation ==
    /\ Returned(agent_eval)
    /\ ~Has(stdout, "AGENT PERFORMANCE EVALUATION")
    /\ LET out == Print_agent_evaluation(agent_eval, files, stdout)
       IN  /\ agent_eval' = out.agent_eval
           /\ files' = out.files
           /\ stdout' = out.stdout
    /\ UNCHANGED content_eval
    /\ ReportFrame

\* EvaluationReporter.export_evaluation(content_eval, agent_eval), once
ExportEvaluation ==
    /\ Returned(content_eval) /\ Returned(agent_eval)
    /\ files.attempts = <<>>
    /\ LET out == Export_evaluation(content_eval, agent_eval, "evaluation_report.json",
                                    files, stdout, now)
       IN  /\ content_eval' = out.content_eval
           /\ agent_eval' = out.agent_eval
           /\ files' = out.files
           /\ stdout' = out.stdout
    /\ ReportFrame

NextReport ==
    \/ EvaluateContent
    \/ EvaluateAgentPerformance
    \/ PrintContentEvaluation
    \/ PrintAgentEvaluation
    \/ ExportEvaluation

SpecReport == InitReport /\ [][NextReport]_vars

(***************************************************************************)
(* CrewObserver (src/observability.py).  An Optional[float] is a sequence  *)
(* of at most one number: <<>> is None.                                    *)
(***************************************************************************)

\* CrewObserver.__init__ at time t
NewObserver(t) ==
    [start_time |-> t, end_time |-> <<>>, agent_metrics |-> <<>>, task_metrics |-> <<>>,
     events |-> <<>>, total_tokens_estimate |-> 0, input_tokens_estimate |-> 0,
     output_tokens_estimate |-> 0]

LogEvent(obs, event_type, data, t) ==
    [obs EXCEPT !.events = Append(@, [event_type |-> event_type,
                                      time_elapsed |-> t - obs.start_time,
                                      data |-> data])]

\* TaskMetrics(task_id, ..., status="running", start_time=time.time())
TaskMetrics(task_id, agent_name, t) ==
    [task_id |-> task_id, agent_name |-> agent_name, status |-> "running",
     start_time |-> <<t>>, end_time |-> <<>>, duration |-> 0, tool_calls |-> 0,
     output_length |-> 0]

StartTask(obs, task_id, agent_name, t) ==
    LogEvent([obs EXCEPT !.task_metrics = Append(@, TaskMetrics(task_id, agent_name, t))],
             "task_start", [task_id |-> task_id, agent |-> agent_name], t)

\* the first task with this id is updated, then break; no such task: nothing
EndTask(obs, task_id, status, output_len, t) ==
    LET found == {i \in DOMAIN obs.task_metrics : obs.task_metrics[i].task_id = task_id}
    IN  IF found = {} THEN obs
        ELSE LET i == CHOOSE j \in found : \A k \in found : j <= k
                 task == obs.task_metrics[i]
                 ended == [task EXCEPT !.end_time = <<t>>,
                                       !.status = status,
                                       !.output_length = output_len,
                                       !.duration = IF task.start_time # <<>>
                                                    THEN t - task.start_time[1] ELSE @]
             IN  LogEvent([obs EXCEPT !.task_metrics[i] = ended,
                                      !.output_tokens_estimate = @ + (output_len \div 4),
                                      !.total_tokens_estimate = @ + (output_len \div 4)],
                          "task_end",
                          [task_id |-> task_id, status |-> status,
                           duration |-> ended.duration, output_length |-> output_len], t)

\* AgentMetrics(agent_name=agent_name), the other fields at their defaults
AgentMetrics(agent_name) ==
    PyObject("AgentMetrics",
             [agent_name |-> agent_name, task_count |-> 0, tool_calls |-> 0, total_time |-> 0,
              start_time |-> <<>>, end_time |-> <<>>, tools_used |-> <<>>, errors |-> <<>>])

\* agent_metrics with the entry of agent_name set to metrics (a dict keeps its
\* other entries)
WithAgent(obs, agent_name, metrics) ==
    [obs EXCEPT !.agent_metrics =
        [a \in DOMAIN @ \cup {agent_name} |-> IF a = agent_name THEN metrics ELSE @[a]]]

\* the agent is registered on its first start; every start sets start_time
StartAgent(obs, agent_name, t) ==
    LET metrics == IF agent_name \in DOMAIN obs.agent_metrics
                   THEN obs.agent_metrics[agent_name] ELSE AgentMetrics(agent_name)
    IN  LogEvent(WithAgent(obs, agent_name, [metrics EXCEPT !.items.start_time = <<t>>]),
                 "agent_start", [agent |-> agent_name], t)

\* metrics.total_time = metrics.end_time - metrics.start_time
TotalTime(metrics, t) == t - metrics.items.start_time[1]

\* a registered agent gets end_time, and total_time when it has a start_time
EndAgent(obs, agent_name, t) ==
    LogEvent(IF agent_name \in DOMAIN obs.agent_metrics
             THEN LET metrics == obs.agent_metrics[agent_name]
                  IN  WithAgent(obs, agent_name,
                                [metrics EXCEPT !.items.end_time = <<t>>,
                                                !.items.total_time =
                                                    IF metrics.items.start_time # <<>>
                                                    THEN TotalTime(metrics, t) ELSE @])
             ELSE obs,
             "agent_end", [agent |-> agent_name], t)

\* if tool_name not in tools_used: tools_used.append(tool_name)
ToolsUsed(tools_used, tool_name) ==
    IF \E i \in DOMAIN tools_used : tools_used[i] = tool_name THEN tools_used
    ELSE Append(tools_used, tool_name)

\* input_tokens = len(input_data) // 4
InputTokensRegisteredOnly(registered, input_len) == IF registered THEN input_len \div 4 ELSE 0

InputTokens(registered, input_len) == input_len \div 4

\* the call is counted for a registered agent only; the input estimate grows
\* for every call
TrackToolUse(obs, agent_name, tool_name, input_len, t) ==
    LET registered == agent_name \in DOMAIN obs.agent_metrics
        counted == IF registered
                   THEN [obs EXCEPT !.agent_metrics[agent_name].items.tool_calls = @ + 1,
                                    !.agent_metrics[agent_name].items.tools_used =
                                        ToolsUsed(@, tool_name)]
                   ELSE obs
        input_tokens == InputTokens(registered, input_len)
    IN  LogEvent([counted EXCEPT !.input_tokens_estimate = @ + input_tokens,
                                 !.total_tokens_estimate = @ + input_tokens],
                 "tool_use",
                 [agent |-> agent_name, tool |-> tool_name, input_length |-> input_len], t)

\* an agent that was never started is registered with the error
TrackErrorRegisters(obs, agent_name, error, t) ==
    LET metrics == IF agent_name \in DOMAIN obs.agent_metrics
                   THEN obs.agent_metrics[agent_name] ELSE AgentMetrics(agent_name)
    IN  LogEvent(WithAgent(obs, agent_name,
                           [metrics EXCEPT !.items.errors = Append(@, error)]),
                 "error", [agent |-> agent_name, error |-> error], t)

\* the error is kept only for an agent that start_agent has registered
TrackError(obs, agent_name, error, t) ==
    LogEvent(IF agent_name \in DOMAIN obs.agent_metrics
             THEN [obs EXCEPT !.agent_metrics[agent_name].items.errors = Append(@, error)]
             ELSE obs,
             "error", [agent |-> agent_name, error |-> error], t)

Finalize(obs, t) == [obs EXCEPT !.end_time = <<t>>]

\* print_summary: finalize, then printing
PrintSummary(obs, t) == Finalize(obs, t)

\* export_metrics: the metrics are dumped to the file, opened once for writing,
\* and the message is printed; the outcome is the exception raised, the file
\* system and the printed lines
Export_metrics(obs, filepath, fs, out) ==
    LET data == [execution_summary |->
                     [start_time |-> IsoFormat(obs.start_time),
                      end_time |-> [i \in DOMAIN obs.end_time |-> IsoFormat(obs.end_time[i])],
                      total_duration |-> [i \in DOMAIN obs.end_time |->
                                             obs.end_time[i] - obs.start_time]],
                 agents |-> obs.agent_metrics,
                 tasks |-> obs.task_metrics,
                 events |-> obs.events]
        opened == [fs EXCEPT !.attempts = Append(@, filepath)]
    IN  IF fs.writable
        THEN [raised |-> "none",
              files |-> [opened EXCEPT !.written = (filepath :> data) @@ @],
              stdout |-> Append(out, "Metrics exported to " \o filepath)]
        ELSE [raised |-> "OSError", files |-> opened, stdout |-> out]

\* TaskMetrics.to_dict()
TaskToDict(task) ==
    PyDict([task_id |-> task.task_id, agent_name |-> task.agent_name,
            status |-> task.status, start_time |-> task.start_time,
            end_time |-> task.end_time, duration |-> task.duration,
            tool_calls |-> task.tool_calls, output_length |-> task.output_length])

(***************************************************************************)
(* BlogPostCrew.create_and_publish_post (src/crew_agent.py)                *)
(***************************************************************************)

\* the role of the agent of each of the five tasks of create_tasks
TaskAgents ==
    <<"Content Researcher", "Blog Content Writer", "Blog Content Writer",
      "Blog Content Writer", "Content Publisher">>

TaskId(i) == "task_" \o ToString(i)

\* how long crew.kickoff() takes, in seconds
RunDurations == {25, 75, 100}

\* What crew.kickoff() leaves behind: whether it raised, how long it took and
\* the document the writer produced; has_title is FALSE when the title task
\* has no output.
Runs ==
    [raises : {TRUE}, duration : RunDurations, document : {GoodDocument},
     has_title : {TRUE}]
      \cup [raises : {FALSE}, duration : RunDurations,
            document : {GoodDocument, PoorDocument}, has_title : BOOLEAN]

\* len(str(tasks[i].output)) if tasks[i].output, else len(str(result)): the
\* title, the tags and the text of the document
OutputLength(run, i) ==
    CASE i = 2 -> IF run.has_title THEN run.document.title_len ELSE 6 * run.document.word_count
      [] i = 4 -> 8 * Len(run.document.tags)
      [] OTHER -> 6 * run.document.word_count

\* MIN_QUALITY_SCORE of config.py, in points
MIN_QUALITY_SCORE == 70

InitCrew ==
    /\ crew \in [pc : {"constructed"}, i : {0},
                 enable_observability : BOOLEAN, enable_evaluation : BOOLEAN,
                 export_evaluation : BOOLEAN, export_metrics : BOOLEAN,
                 run : {None}, published : {FALSE},
                 warned : {FALSE}, returned : {"nothing"}]
    /\ files \in FileSystems
    /\ stdout = <<>>
    /\ now = 1000
    /\ observer = IF crew.enable_observability THEN NewObserver(now) ELSE None
    /\ content_args = None /\ content_eval = None
    /\ agent_args = None /\ agent_eval = None
    /\ score_in = None /\ grades = None
    /\ calls = None /\ heap = None

HasObserver == crew.enable_observability

CrewFrame == UNCHANGED <<score_in, grades, calls, heap>>

NoEvaluation == UNCHANGED <<content_args, content_eval, agent_args, agent_eval>>

NoOutput == UNCHANGED <<files, stdout>>

\* f"evaluation_{int(self.observer.start_time)}.json"
EvaluationPath(obs) == "evaluation_" \o ToString(obs.start_time) \o ".json"

\* f"crew_metrics_{int(self.observer.start_time)}.json"
MetricsPath(obs) == "crew_metrics_" \o ToString(obs.start_time) \o ".json"

\* create_and_publish_post is called some time after the crew was constructed:
\* crew_start is logged and the tasks are created
CallCreateAndPublish ==
    /\ crew.pc = "constructed"
    /\ \E delay \in {0, 5} : now' = now + delay
    /\ observer' = IF HasObserver THEN LogEvent(observer, "crew_start", [topic |-> "topic"], now') ELSE observer
    /\ crew' = [crew EXCEPT !.pc = IF HasObserver THEN "start_tasks" ELSE "kickoff", !.i = 1]
    /\ NoEvaluation /\ NoOutput /\ CrewFrame

\* one round of the loop `for i, task in enumerate(tasks)`
StartTaskStep ==
    /\ crew.pc = "start_tasks"
    /\ observer' = StartTask(observer, TaskId(crew.i), TaskAgents[crew.i], now)
    /\ crew' = [crew EXCEPT !.i = IF crew.i = Len(TaskAgents) THEN 1 ELSE @ + 1,
                            !.pc = IF crew.i = Len(TaskAgents) THEN "kickoff" ELSE @]
    /\ UNCHANGED now
    /\ NoEvaluation /\ NoOutput /\ CrewFrame

\* how long Crew(agents=..., tasks=...) takes to build, in seconds
SetupDurations == {0, 3}

\* a kickoff that reports the first task as completed as soon as it starts
KickoffTracksTasks ==
    /\ crew.pc = "kickoff"
    /\ \E run \in Runs, setup \in SetupDurations :
          /\ now' = now + setup + run.duration
          /\ crew' = [crew EXCEPT !.run = run,
                                  !.published = ~run.raises,
                                  !.i = 1,
                                  !.pc = IF run.raises THEN "except"
                                         ELSE IF HasObserver THEN "end_tasks"
                                         ELSE "evaluate_content"]
          /\ observer' = IF HasObserver
                         THEN EndTask(observer, TaskId(1), "completed",
                                      OutputLength(run, 1), now + setup)
                         ELSE observer
    /\ NoEvaluation /\ NoOutput /\ CrewFrame

\* crew = Crew(...); result = crew.kickoff(): all five tasks run, the last one
\* publishes
Kickoff ==
    /\ crew.pc = "kickoff"
    /\ \E run \in Runs, setup \in SetupDurations :
          /\ now' = now + setup + run.duration
          /\ crew' = [crew EXCEPT !.run = run,
                                  !.published = ~run.raises,
                                  !.i = 1,
                                  !.pc = IF run.raises THEN "except"
                                         ELSE IF HasObserver THEN "end_tasks"
                                         ELSE "evaluate_content"]
    /\ UNCHANGED observer
    /\ NoEvaluation /\ NoOutput /\ CrewFrame

\* one round of the loop `for i in range(len(tasks))`, and crew_end after it
EndTaskStep ==
    /\ crew.pc = "end_tasks"
    /\ LET ended == EndTask(observer, TaskId(crew.i), "completed",
                            OutputLength(crew.run, crew.i), now)
       IN  observer' = IF crew.i = Len(TaskAgents)
                       THEN LogEvent(ended, "crew_end", [status |-> "success"], now)
                       ELSE ended
    /\ crew' = [crew EXCEPT !.i = IF crew.i = Len(TaskAgents) THEN 1 ELSE @ + 1,
                            !.pc = IF crew.i = Len(TaskAgents) THEN "evaluate_content" ELSE @]
    /\ UNCHANGED now
    /\ NoEvaluation /\ NoOutput /\ CrewFrame

\* if self.enable_evaluation and title and content and tags
Evaluating == crew.enable_evaluation /\ crew.run.has_title

\* content_eval = self.content_evaluator.evaluate_content(title, content, tags)
CrewEvaluateContent ==
    /\ crew.pc = "evaluate_content"
    /\ IF Evaluating
       THEN /\ content_args' = ContentArgs(crew.run.document)
            /\ content_eval' = Evaluate_content(content_args')
            /\ crew' = [crew EXCEPT !.pc = IF content_eval'.raised # "none" THEN "except"
                                           ELSE "evaluate_agent"]
       ELSE /\ UNCHANGED <<content_args, content_eval>>
            /\ crew' = [crew EXCEPT !.pc = "summary"]
    /\ UNCHANGED <<agent_args, agent_eval, observer, now, files, stdout>>
    /\ CrewFrame

\* the arguments the crew passes to evaluate_agent_performance
CrewAgentArgs(obs) ==
    [agent_metrics |-> obs.agent_metrics,
     task_metrics |-> [i \in DOMAIN obs.task_metrics |-> TaskToDict(obs.task_metrics[i])],
     total_duration |-> IF obs.end_time # <<>> /\ obs.end_time[1] # 0
                        THEN obs.end_time[1] - obs.start_time ELSE 0]

\* if self.observer: agent_eval = self.agent_evaluator.evaluate_agent_performance(...)
CrewEvaluateAgent ==
    /\ crew.pc = "evaluate_agent"
    /\ IF HasObserver
       THEN /\ agent_args' = CrewAgentArgs(observer)
            /\ agent_eval' = Evaluate_agent_performance(agent_args')
            /\ crew' = [crew EXCEPT !.pc = IF agent_eval'.raised # "none" THEN "except"
                                           ELSE "report"]
       ELSE /\ UNCHANGED <<agent_args, agent_eval>>
            /\ crew' = [crew EXCEPT !.pc = "report"]
    /\ UNCHANGED <<content_args, content_eval, observer, now, files, stdout>>
    /\ CrewFrame

\* the threshold warning
WarningMessage == "Warning: Content quality score is below minimum threshold"

\* if content_eval.overall_score < MIN_QUALITY_SCORE: the call fails
ThresholdCheckEnforced(crew_, low) ==
    [crew_ EXCEPT !.warned = low, !.pc = IF low THEN "except" ELSE @]

\* if content_eval.overall_score < MIN_QUALITY_SCORE: two lines are printed
ThresholdCheck(crew_, low) == [crew_ EXCEPT !.warned = low]

\* the two reports are printed (the agent's if there is one), the evaluation is
\* exported if EXPORT_EVALUATION and there is an agent evaluation, and a score
\* below the threshold is warned about
Report ==
    /\ crew.pc = "report"
    /\ LET p1 == Print_content_evaluation(content_eval, files, stdout)
           p2 == IF agent_eval # None
                 THEN Print_agent_evaluation(agent_eval, p1.files, p1.stdout)
                 ELSE ReportOutcome("none", None, agent_eval, p1.files, p1.stdout)
           ex == IF crew.export_evaluation /\ p2.agent_eval # None
                 THEN Export_evaluation(p1.content_eval, p2.agent_eval,
                                        EvaluationPath(observer), p2.files, p2.stdout, now)
                 ELSE ReportOutcome("none", p1.content_eval, p2.agent_eval,
                                    p2.files, p2.stdout)
           low == ex.content_eval.overall_score < MIN_QUALITY_SCORE * 100
       IN  /\ content_eval' = ex.content_eval
           /\ agent_eval' = ex.agent_eval
           /\ files' = ex.files
           /\ IF ex.raised # "none"
              THEN /\ crew' = [crew EXCEPT !.pc = "except"]
                   /\ stdout' = ex.stdout
              ELSE /\ crew' = ThresholdCheck([crew EXCEPT !.pc = "summary"], low)
                   /\ stdout' = IF low THEN Append(ex.stdout, WarningMessage)
                                ELSE ex.stdout
    /\ UNCHANGED <<content_args, agent_args, observer, now>>
    /\ CrewFrame

\* print_summary, export_metrics if EXPORT_METRICS, return str(result)
Summary ==
    /\ crew.pc = "summary"
    /\ observer' = IF HasObserver THEN PrintSummary(observer, now) ELSE observer
    /\ IF HasObserver /\ crew.export_metrics
       THEN LET ex == Export_metrics(observer', MetricsPath(observer), files, stdout)
            IN  /\ files' = ex.files
                /\ stdout' = ex.stdout
                /\ crew' = IF ex.raised # "none" THEN [crew EXCEPT !.pc = "except"]
                           ELSE [crew EXCEPT !.pc = "returned", !.returned = "result"]
       ELSE /\ crew' = [crew EXCEPT !.pc = "returned", !.returned = "result"]
            /\ NoOutput
    /\ UNCHANGED now
    /\ NoEvaluation /\ CrewFrame

\* except Exception as e: track_error, crew_end, print_summary, and the error
\* message is returned
Except ==
    /\ crew.pc = "except"
    /\ observer' = IF HasObserver
                   THEN PrintSummary(LogEvent(TrackError(observer, "Crew", "e", now),
                                              "crew_end", [status |-> "error"], now), now)
                   ELSE observer
    /\ crew' = [crew EXCEPT !.pc = "returned", !.returned = "Error creating blog post"]
    /\ UNCHANGED now
    /\ NoEvaluation /\ NoOutput /\ CrewFrame

NextCrew ==
    \/ CallCreateAndPublish
    \/ StartTaskStep
    \/ Kickoff
    \/ EndTaskStep
    \/ CrewEvaluateContent
    \/ CrewEvaluateAgent
    \/ Report
    \/ Summary
    \/ Except

SpecCrew == InitCrew /\ [][NextCrew]_vars

\* C10: the total_duration the crew passes to evaluate_agent_performance is the
\* time from the observer's start to the end of the run (the observer's end
\* time is set by then), so a run of more than 90 seconds is scored as slow.
C10_DurationIsElapsed ==
    agent_args # None =>
        /\ observer.end_time # <<>>
        /\ agent_args.total_duration = now - observer.start_time
        /\ (now - observer.start_time > 90 /\ Returned(agent_eval)) =>
              Has(agent_eval.weaknesses,
                  "Slow execution (" \o Fmt1(now - observer.start_time) \o "s)")

(***************************************************************************)
(* A CrewObserver driven directly: any sequence of its operations          *)
(***************************************************************************)

\* the calls made on the observer, one second apart
MaxObserverCalls == 5

ObserverAgents == {"Researcher"}

\* tool name and len(input_data)
ToolInputs == {<<"search", 9>>, <<"publish", 40>>}

\* the ids end_task is called with; only task_1 is ever started
ObserverTaskIds == {"task_1", "task_2"}

\* CrewObserver()
InitObserver ==
    /\ now = 1000
    /\ observer = NewObserver(now)
    /\ content_args = None /\ content_eval = None
    /\ agent_args = None /\ agent_eval = None
    /\ score_in = None /\ grades = None
    /\ calls = None /\ heap = None
    /\ crew = None /\ files = None /\ stdout = None

ObserverFrame ==
    UNCHANGED <<content_args, content_eval, agent_args, agent_eval, score_in, grades,
                calls, heap, crew, files, stdout>>

\* the next call reads the clock one second after the previous one
ObserverCall ==
    /\ now - observer.start_time < MaxObserverCalls
    /\ now' = now + 1
    /\ ObserverFrame

ObserverStartAgent ==
    /\ ObserverCall
    /\ \E a \in ObserverAgents : observer' = StartAgent(observer, a, now')

ObserverEndAgent ==
    /\ ObserverCall
    /\ \E a \in ObserverAgents : observer' = EndAgent(observer, a, now')

ObserverStartTask ==
    /\ ObserverCall
    /\ \E a \in ObserverAgents : observer' = StartTask(observer, "task_1", a, now')

ObserverEndTask ==
    /\ ObserverCall
    /\ \E id \in ObserverTaskIds : observer' = EndTask(observer, id, "completed", 10, now')

ObserverTrackToolUse ==
    /\ ObserverCall
    /\ \E a \in ObserverAgents, tool \in ToolInputs :
          observer' = TrackToolUse(observer, a, tool[1], tool[2], now')

ObserverTrackError ==
    /\ ObserverCall
    /\ \E a \in ObserverAgents : observer' = TrackError(observer, a, "timeout", now')

NextObserver ==
    \/ ObserverStartAgent
    \/ ObserverEndAgent
    \/ ObserverStartTask
    \/ ObserverEndTask
    \/ ObserverTrackToolUse
    \/ ObserverTrackError

SpecObserver == InitObserver /\ [][NextObserver]_vars

(***************************************************************************)
(* Properties of the reporter                                              *)
(***************************************************************************)

\* C11: no operation changes what it is given: evaluate_content and
\* evaluate_agent_performance leave their arguments as they were, and the two
\* print operations and export_evaluation leave the score objects they receive
\* as they were.
C11_ArgumentsKept ==
    [][/\ content_args' = content_args
       /\ agent_args' = agent_args
       /\ content_eval # None => content_eval' = content_eval
       /\ agent_eval # None => agent_eval' = agent_eval]_vars

\* C11 witness: an agent evaluation has returned for metrics and tasks that
\* lack keys the evaluator looks up, and both evaluations have been printed
\* and exported.
C11_Witness ==
    /\ Returned(agent_eval) /\ Returned(content_eval)
    /\ \E a \in DOMAIN agent_args.agent_metrics :
          "errors" \notin DOMAIN agent_args.agent_metrics[a].items
    /\ \E i \in DOMAIN agent_args.task_metrics :
          "duration" \notin DOMAIN agent_args.task_metrics[i].items
    /\ Has(stdout, "CONTENT QUALITY EVALUATION")
    /\ Has(stdout, "AGENT PERFORMANCE EVALUATION")
    /\ DOMAIN files.written # {}

\* C12: a report that export_evaluation has written has exactly the fields
\* content_quality, agent_performance and timestamp, and reading it back gives
\* every field of both score objects: the scores, the grade and the lists with
\* the same elements in the same order.
C12_ExportLossless ==
    files # None =>
        \A path \in DOMAIN files.written :
            LET record == files.written[path]
            IN  /\ DOMAIN record = {"content_quality", "agent_performance", "timestamp"}
                /\ JsonLoadScore(record.content_quality) = ToDict(content_eval, ContentFields)
                /\ JsonLoadScore(record.agent_performance) = ToDict(agent_eval, AgentFields)

\* C12 witness: a report has been written for a content score with two digits
\* after the point and several recommendations, and an agent score with both
\* strengths and weaknesses.
C12_Witness ==
    /\ files # None /\ DOMAIN files.written # {}
    /\ content_eval.overall_score % 10 # 0
    /\ Len(content_eval.recommendations) >= 2
    /\ agent_eval.strengths # <<>>
    /\ Len(agent_eval.weaknesses) >= 2

\* how often open() was called with the path
Attempts(path) == Cardinality({i \in DOMAIN files.attempts : files.attempts[i] = path})

\* C13: when the report cannot be written, export_evaluation has tried once,
\* has not printed its message and has written nothing, and the crew is in its
\* error handling: it returns the error message, not the result.
C13_ExportFailureSurfaces ==
    (crew # None /\ HasObserver /\ ~files.writable
       /\ Attempts(EvaluationPath(observer)) > 0) =>
        /\ Attempts(EvaluationPath(observer)) = 1
        /\ ~Has(stdout, ExportedMessage(EvaluationPath(observer)))
        /\ EvaluationPath(observer) \notin DOMAIN files.written
        /\ \/ crew.pc = "except"
           \/ crew.pc = "returned" /\ crew.returned = "Error creating blog post"

\* C13 witness: the crew has returned after an export that could not write.
C13_Witness ==
    /\ crew # None /\ HasObserver /\ ~files.writable
    /\ Attempts(EvaluationPath(observer)) = 1
    /\ crew.pc = "returned"

(***************************************************************************)
(* Properties of the content axes.  The expected score of an axis is       *)
(* written out from the arguments of the call.                             *)
(***************************************************************************)

\* 1 if the condition holds, else 0
Bool(b) == IF b THEN 1 ELSE 0

\* C14: the completeness score is max(0, 100 - 15*[first paragraph under 30
\* words] - 10*[last paragraph under 30 words and without a conclusion word]
\* - 20*[an H2 exists and paragraphs per H2 < 2] - 30*[placeholder text in the
\* raw content, whatever its letter case] - 40*[word count < 500]); content
\* with 'lorem ipsum' always gets the placeholder issue.
C14_CompletenessFormula ==
    (content_args # None /\ Returned(content_eval)) =>
        LET c == content_args.content
            p == c.p_tags
            short_intro == p # <<>> /\ p[1].words < 30
            no_conclusion ==
                /\ p # <<>> /\ p[Len(p)].words < 30
                /\ \A w \in {"conclusion", "summary", "in closing", "to wrap up", "finally"} :
                      ~ContainsLower(p[Len(p)].text, w)
            shallow == c.h2_tags >= 1 /\ Len(p) < 2 * c.h2_tags
            placeholder ==
                \E w \in {"lorem ipsum", "placeholder", "todo", "tbd", "xxx"} :
                    ContainsLower(c.raw, w)
            tiny == c.word_count < 500
        IN  /\ content_eval.completeness_score =
                   100 * Max(0, 100 - 15 * Bool(short_intro) - 10 * Bool(no_conclusion)
                                    - 20 * Bool(shallow) - 30 * Bool(placeholder)
                                    - 40 * Bool(tiny))
            /\ ContainsLower(c.raw, "lorem ipsum") =>
                   Has(content_eval.issues, "Content contains placeholder text")

\* C14 witness: content with 'Lorem Ipsum' in it and nothing else the axis
\* objects to has been scored 70 for completeness.
C14_Witness ==
    /\ content_args # None /\ Returned(content_eval)
    /\ "Lorem Ipsum" \in content_args.content.raw
    /\ content_eval.completeness_score = 70 * 100

\* the words of the title, lower-cased, longer than 4, found in the lower-cased
\* content
Overlap(args) ==
    {w \in {Lower(args.title.words[i]) : i \in DOMAIN args.title.words} :
        Len(w) > 4 /\ ContainsLower(args.content.raw, w)}

\* the tags that are not blank
RealTags(args) == {i \in DOMAIN args.tags : args.tags[i] \notin {"", " "}}

\* every message the SEO axis can append for these arguments
SeoMessages(args) ==
    {"Title too short (" \o ToString(args.title.length) \o " chars). SEO optimal: 50-70",
     "Title too long (" \o ToString(args.title.length) \o " chars). May be truncated",
     "Only " \o ToString(Cardinality(RealTags(args))) \o " tags. Recommended: 3-5",
     "Too many tags - dilutes focus",
     "Content too short (" \o ToString(args.content.word_count) \o " words). Target: 800-1500",
     "Title keywords barely appear in content",
     "Expand title to 50-70 characters", "Title could be longer for better SEO",
     "Shorten title to 50-70 characters", "Add more relevant tags",
     "Reduce to 3-5 most relevant tags", "Expand content with more details and examples",
     "Content is quite long - consider breaking into series",
     "Use title keywords naturally throughout content"}

\* C15: the SEO score is max(0, 100 - title penalty - tag penalty - word-count
\* penalty - 20*[fewer than 2 title keywords in the content]); a 55-character
\* title, 4 tags, 1000 words and 2 keywords give exactly 100 and no SEO message.
C15_SeoFormula ==
    (content_args # None /\ Returned(content_eval)) =>
        LET len == content_args.title.length
            tags == Cardinality(RealTags(content_args))
            words == content_args.content.word_count
            title_penalty == IF len < 30 THEN 20 ELSE IF len < 50 THEN 10
                             ELSE IF len > 70 THEN 15 ELSE 0
            tag_penalty == IF tags < 3 THEN 15 ELSE IF tags > 7 THEN 10 ELSE 0
            word_penalty == IF words < 800 THEN 25 ELSE IF words > 2000 THEN 5 ELSE 0
            keyword_penalty == 20 * Bool(Cardinality(Overlap(content_args)) < 2)
        IN  /\ content_eval.seo_score =
                   100 * Max(0, 100 - title_penalty - tag_penalty - word_penalty
                                    - keyword_penalty)
            /\ (len = 55 /\ tags = 4 /\ words = 1000
                  /\ Cardinality(Overlap(content_args)) >= 2) =>
                   /\ content_eval.seo_score = 100 * 100
                   /\ \A m \in SeoMessages(content_args) :
                         /\ ~Has(content_eval.issues, m)
                         /\ ~Has(content_eval.recommendations, m)

\* C15 witness: a 55-character title, 4 tags of which none is blank, 1000
\* words and two keywords have been scored, in a document other axes object to.
C15_Witness ==
    /\ content_args # None /\ Returned(content_eval)
    /\ content_args.title.length = 55
    /\ Cardinality(RealTags(content_args)) = 4
    /\ content_args.content.word_count = 1000
    /\ Cardinality(Overlap(content_args)) >= 2
    /\ content_eval.seo_score = 100 * 100
    /\ content_eval.issues # <<>>

\* the start tags of a top-level heading among the notable substrings
H1Tags == {"<h1>", "<H1>", "<h1 class=\"title\">"}

\* the raw content has a top-level heading
HasH1(content) == content.raw \cap H1Tags # {}

\* what the structure checks other than the H1 check subtract
StructurePenalty(c) ==
    25 * Bool(c.h2_tags < 3) + 10 * Bool(c.h2_tags > 8) + 10 * Bool(c.h3_tags = 0)
      + 20 * Bool(Len(c.p_tags) < 5) + 10 * Bool(c.lists = 0)
      + 5 * Bool(c.strong_tags = 0)

\* C16: for content without a top-level heading the structure score is
\* max(0, 100 - 25*[H2 < 3] - 10*[H2 > 8] - 10*[no H3] - 20*[paragraphs < 5]
\* - 10*[no list] - 5*[no emphasis]); the H2 and paragraph conditions record an
\* issue, and H2 < 3, no H3, few paragraphs, no list and no emphasis a
\* recommendation.
C16_StructureFormula ==
    (content_args # None /\ Returned(content_eval) /\ ~HasH1(content_args.content)) =>
        LET c == content_args.content
            issues == content_eval.issues
            recs == content_eval.recommendations
        IN  /\ content_eval.structure_score = 100 * Max(0, 100 - StructurePenalty(c))
            /\ c.h2_tags < 3 <=>
                 Has(issues, "Only " \o ToString(c.h2_tags) \o " main sections (H2). Need at least 3")
            /\ c.h2_tags > 8 <=>
                 Has(issues, "Too many main sections - content may be fragmented")
            /\ Len(c.p_tags) < 5 <=> Has(issues, "Too few paragraphs - content lacks depth")
            /\ c.h2_tags < 3 <=> Has(recs, "Add more main sections with H2 headings")
            /\ c.h3_tags = 0 <=> Has(recs, "Consider adding subsections with H3 headings")
            /\ Len(c.p_tags) < 5 <=> Has(recs, "Break content into more paragraphs")
            /\ c.lists = 0 <=> Has(recs, "Consider using bullet points or numbered lists")
            /\ c.strong_tags = 0 <=> Has(recs, "Add emphasis to key points using bold/italic")

\* C16 witness: content without a top-level heading, with exactly 5 paragraphs
\* and more than 8 H2, has been scored 90 for structure.
C16_Witness ==
    /\ content_args # None /\ Returned(content_eval)
    /\ ~HasH1(content_args.content)
    /\ Len(content_args.content.p_tags) = 5
    /\ content_args.content.h2_tags > 8
    /\ content_eval.structure_score = 90 * 100

\* C17: a top-level heading tag in the raw content, in any letter case and with
\* or without attributes, records the issue 'Contains H1 tag - title should be
\* separate' and costs 15 points of structure; without one neither happens.
C17_H1Detected ==
    (content_args # None /\ Returned(content_eval)) =>
        LET c == content_args.content
        IN  /\ HasH1(c) <=>
                 Has(content_eval.issues, "Contains H1 tag - title should be separate")
            /\ content_eval.structure_score =
                 100 * Max(0, 100 - StructurePenalty(c) - 15 * Bool(HasH1(c)))

\* C18: when textstat raises nothing the readability score is 100 - (20 if
\* reading ease < 50, 10 if it is in [50, 60)) - (15 if grade level > 12, 5 if
\* it is < 6) - (10 if the average sentence is longer than 25 words), with an
\* issue exactly for ease < 50, grade > 12 and grade < 6, and a recommendation
\* exactly for ease < 60, grade > 12 and long sentences.
C18_ReadabilityFormula ==
    (content_args # None /\ Returned(content_eval)
       /\ content_args.content.fault \notin TextstatFaults) =>
        LET c == content_args.content
            ease == c.reading_ease
            grade == c.grade_level
            issues == content_eval.issues
            recs == content_eval.recommendations
        IN  /\ content_eval.readability_score =
                 100 * (100 - (IF ease < 50 THEN 20 ELSE IF ease < 60 THEN 10 ELSE 0)
                            - (IF grade > 12 THEN 15 ELSE IF grade < 6 THEN 5 ELSE 0)
                            - (IF c.avg_sentence_length > 25 THEN 10 ELSE 0))
            /\ ease < 50 <=>
                 Has(issues, "Content is difficult to read (score: " \o Fmt1(ease) \o ")")
            /\ grade > 12 <=>
                 Has(issues, "Content requires college-level reading (grade " \o Fmt1(grade) \o ")")
            /\ grade < 6 <=> Has(issues, "Content may be too simplistic")
            /\ ease < 50 <=> Has(recs, "Use shorter sentences and simpler words")
            /\ (50 <= ease /\ ease < 60) <=>
                 Has(recs, "Could improve readability with simpler language")
            /\ grade > 12 <=> Has(recs, "Simplify complex sentences")
            /\ c.avg_sentence_length > 25 <=> Has(recs, "Consider breaking up long sentences")
            /\ ~ \E i \in DOMAIN issues :
                   issues[i] = "Could not fully assess readability: " \o c.fault

\* C18 witness: text of grade level exactly 12 with reading ease 59 and long
\* sentences has been scored 80 for readability.
C18_Witness ==
    /\ content_args # None /\ Returned(content_eval)
    /\ content_args.content.fault = "none"
    /\ content_args.content.grade_level = 12
    /\ content_args.content.reading_ease = 59
    /\ content_args.content.avg_sentence_length > 25
    /\ content_eval.readability_score = 80 * 100

(***************************************************************************)
(* Properties of the agent axes                                            *)
(***************************************************************************)

\* how many elements of a sequence satisfy a test
Count(seq, Test(_)) == Cardinality({i \in DOMAIN seq : Test(seq[i])})

\* how often a message is in a list
Occurrences(list, message) == Count(list, LAMBDA m : m = message)

\* the errors of all agents together
ErrorCount(agent_metrics) ==
    SumOver(DOMAIN agent_metrics,
            [a \in DOMAIN agent_metrics |->
                IF "errors" \in DOMAIN agent_metrics[a].items
                THEN Len(agent_metrics[a].items.errors) ELSE 0])

\* the tool calls of all agents together
ToolCallCount(agent_metrics) ==
    SumOver(DOMAIN agent_metrics,
            [a \in DOMAIN agent_metrics |->
                IF "tool_calls" \in DOMAIN agent_metrics[a].items
                THEN agent_metrics[a].items.tool_calls ELSE 0])

\* the duration of a task, 0 when it has none
DurationOf(task) == IF "duration" \in DOMAIN task.items THEN task.items.duration ELSE 0

\* the population variance of the durations that are > 0 exceeds 100:
\* sum((d - S/n)^2) / n > 100, multiplied by n^3
Inconsistent(task_metrics) ==
    LET timed == SelectSeq(task_metrics, LAMBDA t : DurationOf(t) > 0)
        n == Len(timed)
        S == SumSeq([i \in 1..n |-> DurationOf(timed[i])])
    IN  /\ n > 0
        /\ SumSeq([i \in 1..n |-> (n * DurationOf(timed[i]) - S) * (n * DurationOf(timed[i]) - S)])
             > 100 * n * n * n

\* C19: the reliability score is max(0, 100 - 20*E - 30*F - 10*[variance of the
\* positive task durations > 100]), E the errors of all agents and F the tasks
\* whose status is not 'completed'; 'Zero errors during execution' is a
\* strength iff E = 0, 'All tasks completed successfully' iff F = 0.
C19_ReliabilityFormula ==
    (agent_args # None /\ Returned(agent_eval)) =>
        LET E == ErrorCount(agent_args.agent_metrics)
            F == Count(agent_args.task_metrics,
                       LAMBDA t : ~("status" \in DOMAIN t.items /\ t.items.status = "completed"))
        IN  /\ agent_eval.reliability_score =
                 100 * Max(0, 100 - 20 * E - 30 * F
                                  - 10 * Bool(Inconsistent(agent_args.task_metrics)))
            /\ E = 0 <=> Has(agent_eval.strengths, "Zero errors during execution")
            /\ F = 0 <=> Has(agent_eval.strengths, "All tasks completed successfully")
            /\ (E = 0 /\ F = 0 /\ ~Inconsistent(agent_args.task_metrics)) =>
                 agent_eval.reliability_score = 100 * 100

\* C19 witness: a run with one error and one task still running, and no
\* variance penalty, has been scored 50 for reliability.
C19_Witness ==
    /\ agent_args # None /\ Returned(agent_eval)
    /\ ErrorCount(agent_args.agent_metrics) = 1
    /\ \E i \in DOMAIN agent_args.task_metrics :
          agent_args.task_metrics[i] = TaskDict("running", 0, 0)
    /\ agent_eval.reliability_score = 50 * 100

\* C20: the efficiency score is max(0, 100 - (25 if total_duration > 90, 15 if
\* it is in (60, 90]) - (15 if the tool calls of all agents > 10, 10 if < 3)
\* - 10*S), S the tasks with duration > 30; the fast-execution strength is
\* recorded iff total_duration < 30, and one slow-task weakness naming S iff
\* S > 0.
C20_EfficiencyFormula ==
    (agent_args # None /\ Returned(agent_eval)) =>
        LET d == agent_args.total_duration
            calls_ == ToolCallCount(agent_args.agent_metrics)
            S == Count(agent_args.task_metrics, LAMBDA t : DurationOf(t) > 30)
            slow_messages ==
                SumSeq([k \in 1..Len(agent_args.task_metrics) |->
                           Occurrences(agent_eval.weaknesses,
                                       ToString(k) \o " slow tasks detected")])
        IN  /\ agent_eval.efficiency_score =
                 100 * Max(0, 100 - (IF d > 90 THEN 25 ELSE IF d > 60 THEN 15 ELSE 0)
                                  - (IF calls_ > 10 THEN 15 ELSE IF calls_ < 3 THEN 10 ELSE 0)
                                  - 10 * S)
            /\ d < 30 <=>
                 Has(agent_eval.strengths, "Very fast execution (" \o Fmt1(d) \o "s)")
            /\ slow_messages = Bool(S > 0)
            /\ S > 0 =>
                 Occurrences(agent_eval.weaknesses, ToString(S) \o " slow tasks detected") = 1

\* C20 witness: a run of 90 seconds with 12 tool calls and three slow tasks has
\* been scored 40 for efficiency.
C20_Witness ==
    /\ agent_args # None /\ Returned(agent_eval)
    /\ agent_args.total_duration = 90
    /\ ToolCallCount(agent_args.agent_metrics) = 12
    /\ Count(agent_args.task_metrics, LAMBDA t : DurationOf(t) > 30) = 3
    /\ agent_eval.efficiency_score = 40 * 100

\* the output length of a task, 0 when it has none
OutputLengthOf(task) ==
    IF "output_length" \in DOMAIN task.items THEN task.items.output_length ELSE 0

ShortOutputMessage(n) == "Task produced very short output (" \o ToString(n) \o " chars)"

SubstantialMessage(n) == ToString(n) \o " tasks with substantial output"

\* the last n elements of a list
LastN(list, n) == SubSeq(list, Len(list) - n + 1, Len(list))

\* C21: the quality score is max(0, 100 - 15*K), K the tasks with
\* 0 < output_length < 50; there are exactly K short-output weaknesses, one per
\* such task in task order; a task of output_length 0 is not penalised; and one
\* strength naming the count is recorded iff a task has output_length > 500.
C21_QualityFormula ==
    (agent_args # None /\ Returned(agent_eval)) =>
        LET tasks == agent_args.task_metrics
            short == SelectSeq(tasks, LAMBDA t : 0 < OutputLengthOf(t) /\ OutputLengthOf(t) < 50)
            K == Len(short)
            L == Count(tasks, LAMBDA t : OutputLengthOf(t) > 500)
        IN  /\ agent_eval.quality_score = 100 * Max(0, 100 - 15 * K)
            /\ SumSeq([n \in 1..49 |->
                          Occurrences(agent_eval.weaknesses, ShortOutputMessage(n))]) = K
            /\ Occurrences(agent_eval.weaknesses, ShortOutputMessage(0)) = 0
            /\ Len(agent_eval.weaknesses) >= K
            /\ LastN(agent_eval.weaknesses, K)
                 = [i \in 1..K |-> ShortOutputMessage(OutputLengthOf(short[i]))]
            /\ SumSeq([n \in 1..Len(tasks) |->
                          Occurrences(agent_eval.strengths, SubstantialMessage(n))])
                 = Bool(L > 0)
            /\ L > 0 => agent_eval.strengths[Len(agent_eval.strengths)] = SubstantialMessage(L)

\* C21 witness: one task of output length 10 and one of 600 have been scored
\* 85 for quality.
C21_Witness ==
    /\ agent_args # None /\ Returned(agent_eval)
    /\ Len(agent_args.task_metrics) = 2
    /\ OutputLengthOf(agent_args.task_metrics[1]) = 10
    /\ OutputLengthOf(agent_args.task_metrics[2]) = 600
    /\ agent_eval.quality_score = 85 * 100

(***************************************************************************)
(* Properties of the observer                                              *)
(***************************************************************************)

\* the events agent_start and agent_end of one agent, in the order logged
AgentEvents(obs, agent_name) ==
    SelectSeq(obs.events,
              LAMBDA e : /\ e.event_type \in {"agent_start", "agent_end"}
                         /\ e.data.agent = agent_name)

\* the summed lengths of the agent's completed intervals: each agent_end that
\* directly follows an agent_start closes one
ActiveTime(obs, agent_name) ==
    LET events == AgentEvents(obs, agent_name)
    IN  SumSeq([i \in 1..Len(events) |->
                   IF /\ i > 1
                      /\ events[i].event_type = "agent_end"
                      /\ events[i - 1].event_type = "agent_start"
                   THEN events[i].time_elapsed - events[i - 1].time_elapsed
                   ELSE 0])

\* the agent's calls alternate: start_agent, end_agent, start_agent, ...
Alternating(obs, agent_name) ==
    LET events == AgentEvents(obs, agent_name)
    IN  \A i \in 1..Len(events) :
            events[i].event_type = (IF i % 2 = 1 THEN "agent_start" ELSE "agent_end")

NoDuplicates(list) == \A i, j \in DOMAIN list : list[i] = list[j] => i = j

\* C22: after any sequence of start_agent / end_agent calls an agent's
\* total_time is the sum of the lengths of all its completed start-to-end
\* intervals, and tools_used lists each tool name at most once.  Stated for
\* the sequences in which each end_agent closes a start_agent.
C22_TotalTimeCumulative ==
    observer # None =>
        \A a \in DOMAIN observer.agent_metrics :
            /\ Alternating(observer, a) =>
                  observer.agent_metrics[a].items.total_time = ActiveTime(observer, a)
            /\ NoDuplicates(observer.agent_metrics[a].items.tools_used)

(***************************************************************************)
(* Properties of the crew                                                  *)
(***************************************************************************)

\* an export was attempted on a file system that cannot be written
ExportFailed == files.attempts # <<>> /\ ~files.writable

\* the content has been scored below MIN_QUALITY_SCORE
BelowThreshold ==
    /\ content_eval # None /\ Returned(content_eval)
    /\ content_eval.overall_score < MIN_QUALITY_SCORE * 100

\* C23: the threshold is never enforced: the content is evaluated only after
\* kickoff, publishing included, has returned; the evaluation is what
\* evaluate_content computes from title, content and tags alone; a score below
\* the threshold leaves the post published and the result string returned,
\* and only a warning is printed.
C23_ThresholdNotEnforced ==
    crew # None =>
        /\ content_eval # None =>
              /\ crew.published
              /\ content_eval = Evaluate_content(content_args)
        /\ crew.warned => BelowThreshold /\ crew.published /\ Has(stdout, WarningMessage)
        /\ (BelowThreshold /\ crew.pc = "summary") =>
              crew.warned /\ Has(stdout, WarningMessage)
        /\ (BelowThreshold /\ crew.pc = "returned" /\ ~ExportFailed
              /\ (agent_eval # None => Returned(agent_eval))) =>
              crew.published /\ crew.returned = "result"

\* C23 witness: a post scored below the threshold has been published, warned
\* about and its result returned.
C23_Witness ==
    /\ crew # None /\ crew.pc = "returned"
    /\ BelowThreshold
    /\ crew.warned /\ crew.published /\ crew.returned = "result"

(***************************************************************************)
(* Properties of the scores and their messages                             *)
(***************************************************************************)

\* C24: evaluate_content returns the overall score 100 iff it returns no
\* issue and no recommendation; evaluate_agent_performance returns the
\* overall score 100 iff it returns no weakness, whatever the strengths.
C24_PerfectIffNoMessage ==
    /\ (content_eval # None /\ Returned(content_eval)) =>
          (content_eval.overall_score = 100 * 100
             <=> content_eval.issues = <<>> /\ content_eval.recommendations = <<>>)
    /\ (agent_eval # None /\ Returned(agent_eval)) =>
          (agent_eval.overall_score = 100 * 100 <=> agent_eval.weaknesses = <<>>)

\* C24 witness: a run with strengths and no weakness has been scored 100.
C24_Witness ==
    /\ agent_eval # None /\ Returned(agent_eval)
    /\ agent_eval.weaknesses = <<>> /\ agent_eval.strengths # <<>>
    /\ agent_eval.overall_score = 100 * 100

\* the five messages of the completeness axis
CompletenessMessages ==
    <<"Introduction paragraph is too short", "Consider adding a clear conclusion",
      "Sections lack depth - need more content per section",
      "Content contains placeholder text",
      "Content critically short - not viable for publication">>

\* C25: for every input readability is at least 55, structure at least 15 and
\* SEO at least 20, so max(0, score) changes none of the three; only
\* completeness can reach 0; and the overall content score is never below 22.5.
C25_ScoreFloors ==
    (content_eval # None /\ Returned(content_eval)) =>
        /\ content_eval.readability_score >= 55 * 100
        /\ content_eval.structure_score >= 15 * 100
        /\ content_eval.seo_score >= 20 * 100
        /\ content_eval.completeness_score >= 0
        /\ content_eval.overall_score >= 2250

\* C25 witness: a document that fails every check: its completeness penalties
\* add up to 115, the score is clamped to 0, the other axes are at their floors
\* and the overall score is 22.5.
C25_Witness ==
    /\ content_eval # None /\ Returned(content_eval)
    /\ \A i \in DOMAIN CompletenessMessages :
          Has(content_eval.issues \o content_eval.recommendations, CompletenessMessages[i])
    /\ content_eval.completeness_score = 0
    /\ content_eval.readability_score = 55 * 100
    /\ content_eval.structure_score = 15 * 100
    /\ content_eval.seo_score = 20 * 100
    /\ content_eval.overall_score = 2250

\* the first n elements of a list (all of it when it is shorter)
FirstN(list, n) == SubSeq(list, 1, IF n < Len(list) THEN n ELSE Len(list))

\* C26: when the sentence-length metric fails after the earlier checks fired,
\* what they appended stays, in order and before the fallback issue, while the
\* points they took are discarded: the readability score is 75.
C26_MessagesNotRolledBack ==
    (content_args # None /\ Returned(content_eval)
       /\ content_args.content.fault = "avg_sentence_length") =>
        LET ease == content_args.content.reading_ease
            grade == content_args.content.grade_level
            issues ==
                (IF ease < 50
                 THEN <<"Content is difficult to read (score: " \o Fmt1(ease) \o ")">>
                 ELSE <<>>)
                \o (IF grade > 12
                    THEN <<"Content requires college-level reading (grade "
                             \o Fmt1(grade) \o ")">>
                    ELSE IF grade < 6 THEN <<"Content may be too simplistic">> ELSE <<>>)
                \o <<"Could not fully assess readability: avg_sentence_length">>
            recs ==
                (IF ease < 50 THEN <<"Use shorter sentences and simpler words">>
                 ELSE IF ease < 60 THEN <<"Could improve readability with simpler language">>
                 ELSE <<>>)
                \o (IF grade > 12 THEN <<"Simplify complex sentences">> ELSE <<>>)
        IN  /\ content_eval.readability_score = 75 * 100
            /\ FirstN(content_eval.issues, Len(issues)) = issues
            /\ FirstN(content_eval.recommendations, Len(recs)) = recs

\* C26 witness: the result holds both 'Content is difficult to read' and
\* 'Could not fully assess readability' while readability is 75.
C26_Witness ==
    /\ content_args # None /\ Returned(content_eval)
    /\ content_args.content.fault = "avg_sentence_length"
    /\ \E i, j \in DOMAIN content_eval.issues :
          /\ i < j
          /\ content_eval.issues[i] =
               "Content is difficult to read (score: "
                 \o Fmt1(content_args.content.reading_ease) \o ")"
          /\ content_eval.issues[j] =
               "Could not fully assess readability: avg_sentence_length"
    /\ Has(content_eval.recommendations, "Use shorter sentences and simpler words")
    /\ content_eval.readability_score = 75 * 100

(***************************************************************************)
(* Properties of the error handling of the crew                            *)
(***************************************************************************)

ErrorReturned == crew.pc = "returned" /\ crew.returned = "Error creating blog post"

\* every task of the crew has been started and has this status
AllTasks(status) ==
    /\ Len(observer.task_metrics) = Len(TaskAgents)
    /\ \A i \in DOMAIN observer.task_metrics : observer.task_metrics[i].status = status

\* the error is in the events, as the one before last (crew_end follows it),
\* and in no AgentMetrics
RecordedAsEventOnly ==
    /\ observer.agent_metrics = <<>>
    /\ Len(observer.events) >= 2
    /\ LET e == observer.events[Len(observer.events) - 1]
       IN  e.event_type = "error" /\ e.data.agent = "Crew"
    /\ observer.events[Len(observer.events)].event_type = "crew_end"
    /\ observer.events[Len(observer.events)].data.status = "error"

\* C27 as stated: whenever the error message is returned, whichever step of
\* the try block raised, nothing was evaluated or exported and every task is
\* still running.
C27_AnyErrorLeavesTasksRunning ==
    (crew # None /\ ErrorReturned) =>
        /\ content_eval = None /\ agent_eval = None
        /\ files.attempts = <<>>
        /\ HasObserver => AllTasks("running") /\ RecordedAsEventOnly

\* C27, amended: when crew.kickoff raises, the error message is returned,
\* nothing was evaluated or exported, every task is still running and the
\* error is recorded as an event only; when a later step raises, the error
\* message is returned and the error is recorded as an event only, but the
\* tasks have all been ended by then.
C27_KickoffErrorLeavesTasksRunning ==
    (crew # None /\ crew.pc = "returned") =>
        /\ crew.run.raises =>
              /\ ErrorReturned
              /\ content_eval = None /\ agent_eval = None
              /\ files.attempts = <<>> /\ stdout = <<>>
              /\ HasObserver => AllTasks("running")
        /\ (ErrorReturned /\ HasObserver) => RecordedAsEventOnly
        /\ (ErrorReturned /\ ~crew.run.raises) =>
              /\ HasObserver /\ AllTasks("completed")
              /\ ExportFailed

\* C27 witness: kickoff raised under an observer, and the error message was
\* returned with the five tasks running.
C27_Witness ==
    /\ crew # None /\ ErrorReturned /\ HasObserver
    /\ crew.run.raises
    /\ AllTasks("running") /\ RecordedAsEventOnly

\* C28: the crew registers no agent, so agent_metrics is empty whenever
\* evaluate_agent_performance runs: tool calls and errors are 0, the result
\* holds the weakness about very few tool calls and the strength about zero
\* errors, and the efficiency score is at most 90.
C28_NoAgentRegistered ==
    crew # None =>
        /\ HasObserver => observer.agent_metrics = <<>>
        /\ agent_args # None =>
              /\ agent_args.agent_metrics = <<>>
              /\ TotalToolCalls(agent_args.agent_metrics) = 0
              /\ TotalErrors(agent_args.agent_metrics) = 0
              /\ Returned(agent_eval)
              /\ Has(agent_eval.weaknesses, "Very few tool calls - may lack thoroughness")
              /\ Has(agent_eval.strengths, "Zero errors during execution")
              /\ agent_eval.efficiency_score <= 90 * 100

\* C28 witness: the crew has had a fast run evaluated: efficiency is 90.
C28_Witness ==
    /\ crew # None /\ agent_args # None /\ Returned(agent_eval)
    /\ agent_args.agent_metrics = <<>>
    /\ Has(agent_eval.weaknesses, "Very few tool calls - may lack thoroughness")
    /\ agent_eval.efficiency_score = 90 * 100

(***************************************************************************)
(* Properties of the task tracking of the crew                             *)
(***************************************************************************)

\* C29: with an observer every start_task precedes kickoff and every end_task
\* follows its return: until kickoff has returned every started task is
\* 'running' and none is 'completed', all five are running while it executes,
\* and the duration of an ended task is at least that of the whole run.
C29_TasksSpanKickoff ==
    (crew # None /\ HasObserver) =>
        /\ crew.pc \in {"constructed", "start_tasks", "kickoff"} =>
              \A i \in DOMAIN observer.task_metrics :
                  observer.task_metrics[i].status = "running"
        /\ crew.pc = "kickoff" => AllTasks("running")
        /\ \A i \in DOMAIN observer.task_metrics :
              LET task == observer.task_metrics[i]
              IN  task.status = "completed" =>
                    /\ crew.run # None /\ ~crew.run.raises
                    /\ task.duration >= crew.run.duration
                    /\ task.start_time[1] + crew.run.duration <= task.end_time[1]

\* C29 witness: the five tasks have been ended after a run of 75 seconds that
\* followed three seconds of setup: each lasted 78 seconds.
C29_Witness ==
    /\ crew # None /\ HasObserver
    /\ crew.run # None /\ crew.run.duration = 75
    /\ AllTasks("completed")
    /\ \A i \in DOMAIN observer.task_metrics : observer.task_metrics[i].duration = 78

\* the tokens of the events of one type: a quarter of the length logged
EventTokens(obs, event_type, field) ==
    SumSeq([i \in DOMAIN obs.events |->
               IF obs.events[i].event_type = event_type
               THEN obs.events[i].data[field] \div 4 ELSE 0])

\* the tool_use events of an agent logged after its first agent_start
ToolUsesSinceRegistered(obs, agent_name) ==
    LET starts == {i \in DOMAIN obs.events :
                      /\ obs.events[i].event_type = "agent_start"
                      /\ obs.events[i].data.agent = agent_name}
        first == CHOOSE i \in starts : \A j \in starts : i <= j
    IN  Cardinality({i \in DOMAIN obs.events :
                        /\ i > first
                        /\ obs.events[i].event_type = "tool_use"
                        /\ obs.events[i].data.agent = agent_name})

\* C30: after any sequence of observer operations the total estimate is the
\* input estimate plus the output estimate; every track_tool_use adds to the
\* input estimate, also for an agent that is not registered, whose call is not
\* counted in tool_calls; end_task with an id that matches no task changes
\* nothing; and of several tasks with the same id only the first is ever
\* ended.
C30_TokenEstimates ==
    (observer # None /\ crew = None) =>
        /\ observer.total_tokens_estimate
             = observer.input_tokens_estimate + observer.output_tokens_estimate
        /\ observer.input_tokens_estimate = EventTokens(observer, "tool_use", "input_length")
        /\ observer.output_tokens_estimate = EventTokens(observer, "task_end", "output_length")
        /\ \A a \in DOMAIN observer.agent_metrics :
              observer.agent_metrics[a].items.tool_calls = ToolUsesSinceRegistered(observer, a)
        /\ \A id \in ObserverTaskIds :
              (\A i \in DOMAIN observer.task_metrics : observer.task_metrics[i].task_id # id)
                 => EndTask(observer, id, "completed", 10, now) = observer
        /\ \A i, j \in DOMAIN observer.task_metrics :
              (i < j /\ observer.task_metrics[i].task_id = observer.task_metrics[j].task_id)
                 => /\ observer.task_metrics[j].status = "running"
                    /\ observer.task_metrics[j].end_time = <<>>
                    /\ observer.task_metrics[j].output_length = 0

\* C30 witness: a tool was used by an agent that is not registered and task_1,
\* started twice, was ended: the estimates are 2 + 2 = 4 and the second task_1
\* is still running.
C30_Witness ==
    /\ observer # None /\ crew = None
    /\ observer.agent_metrics = <<>>
    /\ observer.input_tokens_estimate = 2
    /\ observer.output_tokens_estimate = 2
    /\ observer.total_tokens_estimate = 4
    /\ Len(observer.task_metrics) = 2
    /\ observer.task_metrics[1].status = "completed"
    /\ observer.task_metrics[2].status = "running"

====
